---- MODULE Spec2Model ----
(***************************************************************************)
(* A model of the file-change tracker, of the cell-aware file operations   *)
(* and of the filesystem keys of the incremental computation graph of      *)
(* buck2 (app/buck2_common/src/dice/file_ops.rs).                          *)
(*                                                                         *)
(* Options are modelled as sets with at most one element: None is {} and   *)
(* Some(x) is {x}.  A Result is a record with a field ok.                  *)
(***************************************************************************)
EXTENDS Integers, Sequences, FiniteSets, TLC

VARIABLES
    tracker,      \* FileChangeTracker: files_to_dirty, dirs_to_dirty, paths_to_dirty
    trackerLive,  \* TRUE while the tracker value is owned (not yet moved into write_to_dice)
    events,       \* history: the events recorded on the tracker since new()
    passed,       \* history: the key sets handed to DiceTransactionUpdater::changed, in call order
    changes,      \* DiceTransactionUpdater: the keys marked changed, not yet committed
    version,      \* the engine's latest committed version
    dirtied,      \* dirtied[w]: the keys the update that produced version w marked changed
    tx,           \* the open transaction's pinned version
    node,         \* the engine's cache: one node per key
    lastRun,      \* history: the version of the latest run of each key's compute function
    rdDir,        \* the directory (a CellPath) that read_dir is asked about
    rdIgnores,    \* the delegate's ignores: each cell's set of patterns
    rdListing,    \* the directory's entries in the order the raw provider returns them now
    rdLast,       \* history: the latest read_dir call, with the listing it met (None before)
    cVersion,     \* the version the transactions of the audit command are pinned at
    cFuts,        \* the keys of the closures handed to compute_many, in declaration order
    cHandle,      \* each handle of compute_many: not polled, waiting, ready with a value, dropped
    cTask,        \* each key's in-flight computation, with the value it has built so far
    cCache,       \* each key's memoized value at cVersion (None if there is none)
    cHist,        \* history, per key and within cVersion: runs started, runs cancelled,
                  \* values discarded by cancelled runs, values of completed runs
    deferred,     \* DeferredRegistry: its entries, the entry with DeferredId i at place i + 1
    artifacts,    \* each declared output artifact's ActionKey (None while it is unbound)
    dynPending,   \* DynamicRegistry.pending
    dynLive,      \* TRUE while the DynamicRegistry is owned (not yet moved into ensure_bound)
    dynCalls,     \* history: the register calls made, with what each was given and returned
    dynBound,     \* history: the ensure_bound call made, with its fetcher and what it
                  \* returned (None before)
    dynLog,       \* history: what was done to each lambda identity, in the order
                  \* the code did it
    ctxState,     \* AnalysisActions.state: the cell holding the analysis registry
    ctxPc,        \* where the run_promises call in progress stands ("idle" if none is)
    ctxBatch,     \* the promises run_promises took and is resolving
    ctxLast,      \* history: the latest operation that returned, with what it returned
    ctxTaken,     \* history: the registries returned by take_state, in call order
    ctxAborted,   \* the operation that panicked (None while none has)
    ctxShort,     \* history of the latest run_promises call: what its
                  \* assert_short_paths_and_resolve met and did (None if it did
                  \* not come to it)
    ctxHist,      \* history of the latest run_promises call: the promises that
                  \* were outstanding during it and those it resolved
    cfgCalls,     \* history: the number of eval_cfg_constructor calls made
    cfgLast,      \* history: the latest eval_cfg_constructor call, with what it was
                  \* given and what it returned (None before)
    clDryRun,     \* CleanCommand.dry_run
    clBuckOut,    \* the buck-out directory: whether it exists, its files and directories
    clDaemonDir,  \* the daemon directory: "absent", "present" or "cleaned"
    clDaemon,     \* TRUE while the daemon runs
    clLock,       \* the daemon lifecycle lock: its holder, and for how many seconds
                  \* another process will still hold it
    clPc,         \* where the clean command stands
    clPaths,      \* clean: paths_to_clean
    clStderr,     \* the lines printed to stderr
    clResult,     \* what the command returned (None while it runs)
    clLog,        \* history: the events of the command, in order
    clAttempts,   \* history: the result of each clean_buck_out call, in order
    clTask,       \* clean_buck_out: each file's task in the thread pool
    clError,      \* clean_buck_out: the shared error slot
    clRecorded,   \* history of one clean_buck_out call: the files whose task
                  \* came to record a failure, in the order they took the mutex
    clRuns,       \* history of one clean_buck_out call: the number of remove_file
                  \* calls made on each file
    clDirPaths,   \* clean_buck_out: reverse_dir_paths
    clRemoved,    \* history: the directories removed, in order, each with the
                  \* entries that were below it when it was removed
    apTargets,    \* audit providers: the configured providers labels in the order
                  \* the patterns enumerate them, each with what get_providers
                  \* comes to for it
    apReady,      \* the futures of compute_many that have completed
    apOrder,      \* history: the futures in the order they completed
    apEmitted,    \* history: the futures futs.next() has yielded, in order
    apStdout,     \* what was written to stdout, in order
    apStderr,     \* what was written to stderr, in order
    apError,      \* at_least_one_error
    apFlushed,    \* the streams the command has flushed
    apPc,         \* where server_execute_with_dice stands
    apResult,     \* what the command returned (None while it runs)
    kPlatform,    \* the platform the kill module is built for: "unix" or "windows"
    kProc,        \* the child process: "running", "dying" (killed, not yet
                  \* terminated), "exited" (terminated, not yet waited for), "reaped"
    kLag,         \* the number of polls after which the handle shows the exit
    kHandle,      \* what kill(pid) returned: None before, else the Option it gave
    kExists,      \* history: the process_exists queries, with the process's state
    kPolls        \* history: the has_exited polls, with the process's state

trackerVars == <<tracker, trackerLive, events, passed>>
engineVars == <<version, dirtied, tx, node, lastRun>>
readDirVars == <<rdDir, rdIgnores, rdListing, rdLast>>
concVars == <<cVersion, cFuts, cHandle, cTask, cCache, cHist>>
dynVars == <<deferred, artifacts, dynPending, dynLive, dynCalls, dynBound, dynLog>>
ctxVars == <<ctxState, ctxPc, ctxBatch, ctxLast, ctxTaken, ctxAborted, ctxHist,
            ctxShort>>
cfgVars == <<cfgCalls, cfgLast>>
cleanVars == <<clDryRun, clBuckOut, clDaemonDir, clDaemon, clLock, clPc, clPaths,
               clStderr, clResult, clLog, clAttempts, clTask, clError, clRecorded,
               clRuns, clDirPaths, clRemoved>>
auditVars == <<apTargets, apReady, apOrder, apEmitted, apStdout, apStderr,
               apError, apFlushed, apPc, apResult>>
killVars == <<kPlatform, kProc, kLag, kHandle, kExists, kPolls>>
restVars == <<ctxVars, cfgVars, cleanVars, auditVars, killVars>>
vars == <<tracker, trackerLive, events, passed, changes,
          version, dirtied, tx, node, lastRun,
          rdDir, rdIgnores, rdListing, rdLast,
          cVersion, cFuts, cHandle, cTask, cCache, cHist,
          deferred, artifacts, dynPending, dynLive, dynCalls, dynBound, dynLog,
          ctxState, ctxPc, ctxBatch, ctxLast, ctxTaken, ctxAborted, ctxHist, ctxShort,
          cfgCalls, cfgLast,
          clDryRun, clBuckOut, clDaemonDir, clDaemon, clLock, clPc, clPaths,
          clStderr, clResult, clLog, clAttempts, clTask, clError, clRecorded,
          clRuns, clDirPaths, clRemoved,
          apTargets, apReady, apOrder, apEmitted, apStdout, apStderr,
          apError, apFlushed, apPc, apResult,
          kPlatform, kProc, kLag, kHandle, kExists, kPolls>>

\* What stands still while the tracker and the graph act, and while
\* read_dir is exercised on its own.
outsideGraph == <<readDirVars, concVars, dynVars, restVars>>
outsideReadDir == <<trackerVars, changes, engineVars, concVars, dynVars, restVars>>
outsideConc == <<trackerVars, changes, engineVars, readDirVars, dynVars, restVars>>
outsideDyn == <<trackerVars, changes, engineVars, readDirVars, concVars, restVars>>
outsideCtx == <<trackerVars, changes, engineVars, readDirVars, concVars, dynVars,
                cfgVars, cleanVars, auditVars, killVars>>
outsideCfg == <<trackerVars, readDirVars, concVars, dynVars, ctxVars, cleanVars,
                auditVars, killVars>>
outsideClean == <<trackerVars, changes, engineVars, readDirVars, concVars, dynVars,
                  ctxVars, cfgVars, auditVars, killVars>>
outsideAudit == <<trackerVars, changes, engineVars, readDirVars, concVars, dynVars,
                  ctxVars, cfgVars, cleanVars, killVars>>
outsideKill == <<trackerVars, changes, engineVars, readDirVars, concVars, dynVars,
                 ctxVars, cfgVars, cleanVars, auditVars>>

----------------------------------------------------------------------------
(* Bounds *)

\* The number of events recorded on one tracker before it is flushed.
MaxEvents == 3

\* The number of entries of the directory that read_dir lists.
MaxEntries == 3

\* The number of closures handed to one compute_many call, and the number
\* of times a transaction is ended with computations in flight.
MaxFuts == 2
MaxCancels == 1

\* The number of register calls on one DynamicRegistry, and the number of
\* output artifacts given to one call.
MaxRegister == 2
MaxOutputs == 2

\* The number of promises an analysis can have outstanding at one time.
MaxPromises == 2

\* The number of eval_cfg_constructor calls.
MaxCfgCalls == 2

\* The number of threads of the pool that deletes buck-out (num_cpus::get()).
NumCpus == 2

\* The number of targets the patterns of one audit providers command
\* enumerate.
MaxTargets == 3

\* The number of process_exists queries and of has_exited polls made while
\* the child has not been waited for, and the number of polls a Windows
\* handle can lag behind the exit.
MaxQueries == 2
MaxPolls == 2
MaxLag == 2

----------------------------------------------------------------------------
(* CellPath *)

CellNames == {"root", "c"}

\* Cell-relative paths: the cell root, a child of it and a grandchild.
RelPaths == {<<>>, <<"a">>, <<"a", "b">>}

CellPath(cell, path) == [cell |-> cell, path |-> path]

CellPaths == {CellPath(c, p) : c \in CellNames, p \in RelPaths}

\* CellPath::parent: None for the root of a cell, else the path without its
\* last component, in the same cell.
parent(p) ==
    IF p.path = <<>>
    THEN {}
    ELSE {CellPath(p.cell, SubSeq(p.path, 1, Len(p.path) - 1))}

----------------------------------------------------------------------------
(* Keys *)

ReadFileKey(p) == [kind |-> "ReadFileKey", path |-> p]
ReadDirKey(p) == [kind |-> "ReadDirKey", path |-> p]
PathMetadataKey(p) == [kind |-> "PathMetadataKey", path |-> p]

----------------------------------------------------------------------------
(* FileChangeTracker *)

new ==
    [files_to_dirty |-> {}, dirs_to_dirty |-> {}, paths_to_dirty |-> {}]

\* Mutation: the file last modified replaces the files recorded before it.
file_contents_modify_replaces(t, path) ==
    [t EXCEPT !.files_to_dirty = {ReadFileKey(path)},
              !.paths_to_dirty = @ \cup {PathMetadataKey(path)}]

file_contents_modify(t, path) ==
    [t EXCEPT !.files_to_dirty = @ \cup {ReadFileKey(path)},
              !.paths_to_dirty = @ \cup {PathMetadataKey(path)}]

\* Mutation: the parent directory is forgotten.
file_added_or_removed_no_parent(t, path) == file_contents_modify(t, path)

file_added_or_removed(t, path) ==
    LET par == parent(path)
        t1 == file_contents_modify(t, path)
    IN  IF par # {}
        THEN [t1 EXCEPT !.dirs_to_dirty = @ \cup {ReadDirKey(q) : q \in par}]
        ELSE t1

dir_added_or_removed(t, path) ==
    LET t1 == [t EXCEPT !.paths_to_dirty = @ \cup {PathMetadataKey(path)}]
        par == parent(path)
    IN  IF par # {}
        THEN [t1 EXCEPT !.dirs_to_dirty =
                            @ \cup {ReadDirKey(path)} \cup {ReadDirKey(q) : q \in par}]
        ELSE t1

\* Mutation: file_changed treated as an addition or removal.
file_changed_as_added(t, path) == file_added_or_removed(t, path)

file_changed(t, path) == file_contents_modify(t, path)

file_removed(t, path) == file_added_or_removed(t, path)

file_added(t, path) == file_added_or_removed(t, path)

\* Mutation: dir_changed treated as an addition or removal.
dir_changed_as_added(t, path) == dir_added_or_removed(t, path)

dir_changed(t, path) ==
    [t EXCEPT !.paths_to_dirty = @ \cup {PathMetadataKey(path)},
              !.dirs_to_dirty = @ \cup {ReadDirKey(path)}]

dir_added(t, path) == dir_added_or_removed(t, path)

dir_removed(t, path) == dir_added_or_removed(t, path)

EventNames ==
    {"file_changed", "file_added", "file_removed",
     "dir_changed", "dir_added", "dir_removed"}

\* The tracker after the method named op is called with path.
ApplyEvent(t, op, path) ==
    CASE op = "file_changed" -> file_changed(t, path)
      [] op = "file_added" -> file_added(t, path)
      [] op = "file_removed" -> file_removed(t, path)
      [] op = "dir_changed" -> dir_changed(t, path)
      [] op = "dir_added" -> dir_added(t, path)
      [] op = "dir_removed" -> dir_removed(t, path)

\* Mutation: dirs_to_dirty is not handed over.
write_to_dice_skips_dirs(t) == <<t.files_to_dirty, t.paths_to_dirty>>

\* Mutation: paths_to_dirty is not handed over.
write_to_dice_skips_paths(t) == <<t.files_to_dirty, t.dirs_to_dirty>>

\* write_to_dice: the three calls of ctx.changed, in order.  The update
\* transaction's changed primitive marks each key it is given; it has no
\* failure in the engine's contract, so every `?` continues.
write_to_dice(t) ==
    <<t.files_to_dirty, t.dirs_to_dirty, t.paths_to_dirty>>

\* DiceTransactionUpdater::changed: the keys are added to the update
\* transaction's pending changes.
changed(pending, keys) == pending \cup keys

RECURSIVE ChangedAll(_, _)
ChangedAll(pending, calls) ==
    IF calls = <<>>
    THEN pending
    ELSE ChangedAll(changed(pending, Head(calls)), Tail(calls))

----------------------------------------------------------------------------
(* Cells and the raw io provider *)

\* CellResolver: each cell's root as a project-relative path.
CellRoot(cell) == IF cell = "root" THEN <<>> ELSE <<cell>>

IsPrefix(a, b) == Len(a) <= Len(b) /\ SubSeq(b, 1, Len(a)) = a

\* DiceFileOpsDelegate::resolve: the cell's root joined with the
\* cell-relative path.
resolve(path) == CellRoot(path.cell) \o path.path

\* CellResolver::get_cell_path: the cell with the longest root that is a
\* prefix of the project-relative path, and the rest of the path.
get_cell_path(pp) ==
    LET holders == {c \in CellNames : IsPrefix(CellRoot(c), pp)}
        cell == CHOOSE c \in holders :
                    \A d \in holders : Len(CellRoot(d)) <= Len(CellRoot(c))
    IN  CellPath(cell, SubSeq(pp, Len(CellRoot(cell)) + 1, Len(pp)))

\* The two paths the engine's keys are about: a directory entry of cell c
\* that is a directory or a symlink, and an entry below it.
PathA == CellPath("c", <<"a">>)
PathAB == CellPath("c", <<"a", "b">>)

ProjA == resolve(PathA)
ProjAB == resolve(PathAB)

\* What the filesystem can hold at ProjA and at ProjAB, and the states of
\* the filesystem a read can meet: f.a is the entry at ProjA, f.ab the one
\* at ProjAB, which is there only below a directory.
EntriesA == {"Dir", "LinkT1", "LinkT2", "IoErr"}
EntriesAB == {"Absent", "FileH1", "FileH2"}
FsStates == {f \in [a : EntriesA, ab : EntriesAB] : f.a # "Dir" => f.ab = "Absent"}

Ok(v) == [ok |-> TRUE, val |-> v]
Err(e) == [ok |-> FALSE, val |-> e]

\* RawPathMetadata, with every field present in every variant.
NoPath == CellPath("", <<>>)
MetaFile(digest) == [tag |-> "File", digest |-> digest, at |-> NoPath, to |-> <<>>]
MetaDirectory == [tag |-> "Directory", digest |-> "", at |-> NoPath, to |-> <<>>]
MetaSymlink(at, to) == [tag |-> "Symlink", digest |-> "", at |-> at, to |-> to]

LinkTarget(entry) == IF entry = "LinkT1" THEN <<"t1">> ELSE <<"t2">>
IsLink(entry) == entry \in {"LinkT1", "LinkT2"}
Digest(entry) == IF entry = "FileH1" THEN "h1" ELSE "h2"

\* The raw provider's read_path_metadata_if_exists on a project-relative
\* path: Option<RawPathMetadata> over project-relative paths, or an error.
\* A symlink on the way to the path is reported with the place it is at.
io_read_path_metadata_if_exists(f, pp) ==
    IF f.a = "IoErr" THEN Err("io")
    ELSE IF IsLink(f.a)
    THEN Ok({MetaSymlink(ProjA,
                         LinkTarget(f.a) \o SubSeq(pp, Len(ProjA) + 1, Len(pp)))})
    ELSE IF pp = ProjA THEN Ok({MetaDirectory})
    ELSE IF f.ab = "Absent" THEN Ok({})
    ELSE Ok({MetaFile(Digest(f.ab))})

\* The raw provider's read_file_if_exists: the file's bytes, if it exists.
\* Behind the symlink, target t1 holds the file with bytes h1 and target t2
\* holds no such file.
io_read_file_if_exists(f, pp) ==
    IF f.a = "IoErr" \/ pp = ProjA THEN Err("io")
    ELSE IF f.a = "LinkT1" THEN Ok({"h1"})
    ELSE IF f.a = "LinkT2" THEN Ok({})
    ELSE IF f.ab = "Absent" THEN Ok({})
    ELSE Ok({Digest(f.ab)})

RawDirEntry(name, type) == [file_name |-> name, file_type |-> type]

\* The raw provider's read_dir: the entries of the directory, unsorted and
\* unfiltered.
io_read_dir(f, pp) ==
    IF f.a = "IoErr" \/ pp # ProjA THEN Err("io")
    ELSE IF f.a = "LinkT1" THEN Ok(<<RawDirEntry("b", "File")>>)
    ELSE IF f.a = "LinkT2" THEN Ok(<<>>)
    ELSE IF f.ab = "Absent" THEN Ok(<<>>)
    ELSE Ok(<<RawDirEntry("b", "File")>>)

\* The directories read_dir is asked about, and their project-relative
\* paths.
DirRelPaths == {<<>>, <<"a">>, <<"target">>}
DirPaths == {CellPath(c, r) : c \in CellNames, r \in DirRelPaths}
ProjDirs == {resolve(p) : p \in DirPaths}

\* The patterns of an ignore matcher: **/name matches a path with a
\* component name, and a path matches itself and all below it.
AnyDepth(name) == [glob |-> "**/", name |-> name, path |-> <<>>]
Below(path) == [glob |-> "", name |-> "", path |-> path]
Matches(pat, relpath) ==
    IF pat.glob = "**/"
    THEN \E i \in 1..Len(relpath) : relpath[i] = pat.name
    ELSE IsPrefix(pat.path, relpath)

\* AllCellIgnores::check_ignored: a cell-relative path is ignored when one of
\* the patterns of its cell matches it.
check_ignored(ignores, cell, relpath) ==
    \E pat \in ignores[cell] : Matches(pat, relpath)

\* The ignores of the delegate that the graph's keys use: **/target in
\* every cell.
IgnoredNames == {"target"}
DefaultIgnores == [c \in CellNames |-> {AnyDepth(n) : n \in IgnoredNames}]

\* FileNameBuf::try_from_or_get_back: a file name is not empty, not "." or
\* "..", and holds no slash or backslash.
InvalidFileNames == {"", ".", "..", "a\\b"}
FileNameBuf_try_from(file_name) == file_name \notin InvalidFileNames

----------------------------------------------------------------------------
(* DiceFileOpsDelegate *)

\* entries.sort_by(|a, b| a.file_name.cmp(&b.file_name)): a stable insertion
\* sort by file_name.  Names are compared through their rank in NameOrder,
\* which lists them in the order of their bytes.
NameOrder == <<"a", "a\\b", "b", "target">>
NameRank(name) == CHOOSE i \in 1..Len(NameOrder) : NameOrder[i] = name

RECURSIVE InsertSorted(_, _)
InsertSorted(e, sorted) ==
    IF sorted = <<>> THEN <<e>>
    ELSE IF NameRank(e.file_name) < NameRank(Head(sorted).file_name)
    THEN <<e>> \o sorted
    ELSE <<Head(sorted)>> \o InsertSorted(e, Tail(sorted))

\* Mutation: the entries are left in the raw provider's order.
sort_by_file_name_raw_order(entries) == entries

RECURSIVE sort_by_file_name(_)
sort_by_file_name(entries) ==
    IF entries = <<>> THEN <<>>
    ELSE InsertSorted(entries[Len(entries)],
                      sort_by_file_name(SubSeq(entries, 1, Len(entries) - 1)))

\* Mutation: the entry's bare name is checked whatever the directory.
entry_is_ignored_bare_name(ignores, path, file_name) ==
    check_ignored(ignores, path.cell, <<file_name>>)

\* The closure is_ignored of read_dir: the entry's cell-relative path is the
\* bare name in the cell's root and dir/name elsewhere.
entry_is_ignored(ignores, path, file_name) ==
    LET cell_relative_path ==
            IF path.path = <<>> THEN <<file_name>> ELSE path.path \o <<file_name>>
    IN  check_ignored(ignores, path.cell, cell_relative_path)

SimpleDirEntry(name, type) == [file_name |-> name, file_type |-> type]

\* The loop over the sorted entries: an ignored entry is left out, and so is
\* one whose name is no valid file name.
RECURSIVE included_entries(_, _, _)
included_entries(ignores, path, entries) ==
    IF entries = <<>> THEN <<>>
    ELSE LET e == Head(entries)
             rest == included_entries(ignores, path, Tail(entries))
         IN  IF ~entry_is_ignored(ignores, path, e.file_name)
                    /\ FileNameBuf_try_from(e.file_name)
             THEN <<SimpleDirEntry(e.file_name, e.file_type)>> \o rest
             ELSE rest

\* The delegate: the raw provider's read_dir (a Result for each
\* project-relative directory) and the ignores.
DiceFileOpsDelegate(io, ignores) == [io |-> io, ignores |-> ignores]

\* Mutation: the raw listing is read before the directory is checked.
delegate_read_dir_lists_first(self, path) ==
    LET project_path == resolve(path)
        entries == self.io[project_path]
    IN  IF check_ignored(self.ignores, path.cell, path.path)
        THEN [res |-> Err("ignored"), io_calls |-> <<project_path>>]
        ELSE IF ~entries.ok
        THEN [res |-> Err("io"), io_calls |-> <<project_path>>]
        ELSE [res |-> Ok(included_entries(self.ignores, path,
                                          sort_by_file_name(entries.val))),
              io_calls |-> <<project_path>>]

\* DiceFileOpsDelegate::read_dir.  res is what it returns and io_calls the
\* calls of the raw provider's read_dir it made, in order.
delegate_read_dir(self, path) ==
    IF check_ignored(self.ignores, path.cell, path.path)
    THEN [res |-> Err("ignored"), io_calls |-> <<>>]
    ELSE LET project_path == resolve(path)
             entries == self.io[project_path]
         IN  IF ~entries.ok
             THEN [res |-> Err("io"), io_calls |-> <<project_path>>]
             ELSE [res |-> Ok(included_entries(self.ignores, path,
                                               sort_by_file_name(entries.val))),
                   io_calls |-> <<project_path>>]

\* DiceFileOpsDelegate::read_path_metadata_if_exists: the raw metadata with
\* its embedded paths mapped to cell paths.
delegate_read_path_metadata_if_exists(f, path) ==
    LET res == io_read_path_metadata_if_exists(f, resolve(path))
    IN  IF ~res.ok THEN Err("io")
        ELSE Ok({IF meta.tag = "Symlink"
                 THEN MetaSymlink(get_cell_path(meta.at), meta.to)
                 ELSE meta : meta \in res.val})

\* DiceFileOpsDelegate::read_file_if_exists
delegate_read_file_if_exists(f, path) == io_read_file_if_exists(f, resolve(path))

----------------------------------------------------------------------------
(* The keys of the graph *)

FileOpsKey == [kind |-> "FileOpsKey", path |-> NoPath]

\* Two keys of a client of the file computations: the first asks for a
\* file's metadata, the second reads the file.
KMeta(p) == [kind |-> "KMeta", path |-> p]
KRead(p) == [kind |-> "KRead", path |-> p]

\* A third one, which lists a directory.
KDir(p) == [kind |-> "KDir", path |-> p]

FileToken(p) == [token |-> p]

\* The keys that have a node in the model.
GraphKeys ==
    {FileOpsKey, ReadFileKey(PathA), ReadFileKey(PathAB), ReadDirKey(PathA),
     PathMetadataKey(PathAB), KMeta(PathAB), KRead(PathAB), KDir(PathA)}

\* Mutation: tokens compared by their paths.
ReadFileKey_equality_structural(x, y) == x = y

\* impl Key for ReadFileKey: equality
ReadFileKey_equality(x, y) == FALSE

\* Mutation: an error counts as valid.
ReadDirKey_validity_always(x) == TRUE

\* impl Key for ReadDirKey: equality, validity
\* Mutation: no two listings are equal.
ReadDirKey_equality_never(x, y) == FALSE

ReadDirKey_equality(x, y) == x.ok /\ y.ok /\ x.val = y.val
ReadDirKey_validity(x) == x.ok

\* Mutation: metadata is never equal.
PathMetadataKey_equality_never(x, y) == FALSE

\* impl Key for PathMetadataKey: equality, validity
PathMetadataKey_equality(x, y) == x.ok /\ y.ok /\ x.val = y.val
PathMetadataKey_validity(x) == x.ok

\* impl Key for FileOpsKey: equality, validity
FileOpsKey_equality(x, y) == x.ok /\ y.ok /\ x.val = y.val
FileOpsKey_validity(x) == x.ok

\* Key::validity where the key type declares none.
default_validity(x) == TRUE

\* The keys of the configuration constructor.
GetCfgConstructorKey == [kind |-> "GetCfgConstructorKey"]
CfgConstructorInvocationKey(package_cfg_modifiers, target_cfg_modifiers, cfg, cli_modifiers, rule_type) ==
    [kind |-> "CfgConstructorInvocationKey",
     package_cfg_modifiers |-> package_cfg_modifiers,
     target_cfg_modifiers |-> target_cfg_modifiers,
     cfg |-> cfg, cli_modifiers |-> cli_modifiers, rule_type |-> rule_type]

\* impl Key for GetCfgConstructorKey: equality
GetCfgConstructorKey_equality(x, y) == FALSE

\* impl Key for CfgConstructorInvocationKey: equality.  The impl declares
\* no validity.
CfgConstructorInvocationKey_equality(x, y) == x.ok /\ y.ok /\ x.val = y.val

equality(k, x, y) ==
    CASE k.kind = "ReadFileKey" -> ReadFileKey_equality(x, y)
      [] k.kind = "ReadDirKey" -> ReadDirKey_equality(x, y)
      [] k.kind = "PathMetadataKey" -> PathMetadataKey_equality(x, y)
      [] k.kind = "FileOpsKey" -> FileOpsKey_equality(x, y)
      [] k.kind = "GetCfgConstructorKey" -> GetCfgConstructorKey_equality(x, y)
      [] k.kind = "CfgConstructorInvocationKey" ->
             CfgConstructorInvocationKey_equality(x, y)
      [] OTHER -> x.ok /\ y.ok /\ x.val = y.val

validity(k, x) ==
    CASE k.kind = "ReadFileKey" -> default_validity(x)
      [] k.kind = "ReadDirKey" -> ReadDirKey_validity(x)
      [] k.kind = "PathMetadataKey" -> PathMetadataKey_validity(x)
      [] k.kind = "FileOpsKey" -> FileOpsKey_validity(x)
      [] k.kind = "GetCfgConstructorKey" -> default_validity(x)
      [] k.kind = "CfgConstructorInvocationKey" -> default_validity(x)
      [] OTHER -> x.ok

----------------------------------------------------------------------------
(* The engine: versions, nodes, evaluation *)

\* The number of update transactions committed.
MaxVersion == 1

Absent ==
    [has |-> FALSE, value |-> Err("none"), deps |-> <<>>,
     changedAt |-> -1, verifiedAt |-> -1]

\* changed(keys) marks each key dirty from the next version on: k was
\* marked by an update that produced a version in (from, to].
InvalidatedBetween(k, from, to) ==
    \E w \in (from + 1)..to : k \in dirtied[w]

RECURSIVE Eval(_, _, _, _)
RECURSIVE CheckDeps(_, _, _, _, _)
RECURSIVE Compute(_, _, _, _)

\* get_default_file_ops: dice.compute(&FileOpsKey()).await??.0
get_default_file_ops(st, v, f) == Eval(FileOpsKey, st, v, f)

\* impl Key for FileOpsKey: compute.  The cell resolver and the ignores do
\* not change in the model, so the delegate is always the same.
FileOpsKey_compute(k, st, v, f) ==
    [st |-> st, val |-> Ok("delegate"), deps |-> <<>>]

\* impl Key for ReadFileKey: compute
ReadFileKey_compute(k, st, v, f) ==
    [st |-> st, val |-> FileToken(k.path), deps |-> <<>>]

\* impl Key for ReadDirKey: compute
ReadDirKey_compute(k, st, v, f) ==
    LET ops == get_default_file_ops(st, v, f)
    IN  IF ~ops.val.ok
        THEN [st |-> ops.st, val |-> Err("file_ops"), deps |-> <<FileOpsKey>>]
        ELSE [st |-> ops.st,
              val |-> delegate_read_dir(
                          DiceFileOpsDelegate(
                              [pp \in ProjDirs |-> io_read_dir(f, pp)],
                              DefaultIgnores),
                          k.path).res,
              deps |-> <<FileOpsKey>>]

\* Mutation: the symlink's ReadFileKey is not asked for.
PathMetadataKey_compute_no_symlink_dep(k, st, v, f) ==
    LET ops == get_default_file_ops(st, v, f)
        res == delegate_read_path_metadata_if_exists(f, k.path)
    IN  IF ~ops.val.ok
        THEN [st |-> ops.st, val |-> Err("file_ops"), deps |-> <<FileOpsKey>>]
        ELSE [st |-> ops.st, val |-> res, deps |-> <<FileOpsKey>>]

\* impl Key for PathMetadataKey: compute
PathMetadataKey_compute(k, st, v, f) ==
    LET ops == get_default_file_ops(st, v, f)
        res == delegate_read_path_metadata_if_exists(f, k.path)
        links == IF res.ok THEN {m \in res.val : m.tag = "Symlink"} ELSE {}
    IN  IF ~ops.val.ok
        THEN [st |-> ops.st, val |-> Err("file_ops"), deps |-> <<FileOpsKey>>]
        ELSE IF ~res.ok
        THEN [st |-> ops.st, val |-> res, deps |-> <<FileOpsKey>>]
        ELSE IF links # {}
        THEN LET at == (CHOOSE m \in links : TRUE).at
                 tok == Eval(ReadFileKey(at), ops.st, v, f)
             IN  [st |-> tok.st, val |-> res,
                  deps |-> <<FileOpsKey, ReadFileKey(at)>>]
        ELSE [st |-> ops.st, val |-> res, deps |-> <<FileOpsKey>>]

\* DiceFileComputations::read_path_metadata_if_exists, as the whole of a
\* client key's compute function.
read_path_metadata_if_exists(k, st, v, f) ==
    LET r == Eval(PathMetadataKey(k.path), st, v, f)
    IN  [st |-> r.st, val |-> r.val, deps |-> <<PathMetadataKey(k.path)>>]

\* DiceFileComputations::read_file_if_exists, as the whole of a client
\* key's compute function: the token comes from the graph, the bytes are
\* read from the file ops when the token is used.
read_file_if_exists(k, st, v, f) ==
    LET ops == get_default_file_ops(st, v, f)
        tok == Eval(ReadFileKey(k.path), ops.st, v, f)
    IN  IF ~ops.val.ok
        THEN [st |-> ops.st, val |-> Err("file_ops"), deps |-> <<FileOpsKey>>]
        ELSE [st |-> tok.st,
              val |-> delegate_read_file_if_exists(f, tok.val.token),
              deps |-> <<FileOpsKey, ReadFileKey(k.path)>>]

\* DiceFileComputations::read_dir, as the whole of a client key's compute
\* function.
read_dir(k, st, v, f) ==
    LET r == Eval(ReadDirKey(k.path), st, v, f)
    IN  [st |-> r.st, val |-> r.val, deps |-> <<ReadDirKey(k.path)>>]

\* get_cfg_constructor_uncached: the cfg_constructor slot of the super
\* package of the root cell's PACKAGE file, f.package_file here.
get_cfg_constructor_uncached(f) == f.package_file

\* impl Key for GetCfgConstructorKey: compute
GetCfgConstructorKey_compute(k, st, v, f) ==
    [st |-> st, val |-> get_cfg_constructor_uncached(f), deps |-> <<>>]

\* CfgConstructorCalculationInstance::get_cfg_constructor
get_cfg_constructor(st, v, f) == Eval(GetCfgConstructorKey, st, v, f)

\* CfgConstructorImpl::eval: the constructor applied to the configuration
\* and the modifiers; f.eval_fails tells whether it fails this time.
cfg_constructor_eval(f, cfg, package_cfg_modifiers, target_cfg_modifiers, cli_modifiers, rule_type) ==
    IF f.eval_fails
    THEN Err("cfg constructor failed")
    ELSE Ok([base |-> cfg,
             modifiers |-> <<package_cfg_modifiers, target_cfg_modifiers,
                             cli_modifiers>>])

\* impl Key for CfgConstructorInvocationKey: compute
CfgConstructorInvocationKey_compute(k, st, v, f) ==
    LET c == get_cfg_constructor(st, v, f)
    IN  [st |-> c.st,
         val |-> IF ~c.val.ok
                 THEN c.val
                 ELSE IF c.val.val = {}
                 THEN Err("Internal error: Global cfg constructor instance should exist")
                 ELSE cfg_constructor_eval(f, k.cfg, k.package_cfg_modifiers,
                                           k.target_cfg_modifiers,
                                           k.cli_modifiers, k.rule_type),
         deps |-> <<GetCfgConstructorKey>>]

Compute(k, st, v, f) ==
    CASE k.kind = "FileOpsKey" -> FileOpsKey_compute(k, st, v, f)
      [] k.kind = "GetCfgConstructorKey" -> GetCfgConstructorKey_compute(k, st, v, f)
      [] k.kind = "CfgConstructorInvocationKey" ->
             CfgConstructorInvocationKey_compute(k, st, v, f)
      [] k.kind = "ReadFileKey" -> ReadFileKey_compute(k, st, v, f)
      [] k.kind = "ReadDirKey" -> ReadDirKey_compute(k, st, v, f)
      [] k.kind = "PathMetadataKey" -> PathMetadataKey_compute(k, st, v, f)
      [] k.kind = "KMeta" -> read_path_metadata_if_exists(k, st, v, f)
      [] k.kind = "KRead" -> read_file_if_exists(k, st, v, f)
      [] k.kind = "KDir" -> read_dir(k, st, v, f)

\* Step 3 of the evaluation protocol: run the compute function, record the
\* keys it asked for, store the value with the version.  A value that is
\* not valid is not stored.  The value counts as changed at v unless it is
\* valid and equal to the stored one.
RunCompute(k, st, v, f) ==
    LET r == Compute(k, st, v, f)
        old == r.st.node[k]
        valid == validity(k, r.val)
        ch == IF valid /\ old.has /\ equality(k, old.value, r.val)
              THEN old.changedAt
              ELSE v
        stored == IF valid
                  THEN [has |-> TRUE, value |-> r.val, deps |-> r.deps,
                        changedAt |-> ch, verifiedAt |-> v]
                  ELSE Absent
    IN  [st |-> [node |-> [r.st.node EXCEPT ![k] = stored],
                 lastRun |-> [r.st.lastRun EXCEPT ![k] = v]],
         val |-> r.val, changedAt |-> ch]

\* Step 2: re-evaluate the recorded dependencies in order, up to the first
\* one whose value is not valid or changed after the version `since`.
CheckDeps(deps, since, st, v, f) ==
    IF deps = <<>>
    THEN [st |-> st, changed |-> FALSE]
    ELSE LET r == Eval(Head(deps), st, v, f)
         IN  IF ~validity(Head(deps), r.val) \/ r.changedAt > since
             THEN [st |-> r.st, changed |-> TRUE]
             ELSE CheckDeps(Tail(deps), since, r.st, v, f)

\* compute(k) in a transaction pinned at v.
Eval(k, st, v, f) ==
    LET n == st.node[k]
    IN  IF n.has /\ n.verifiedAt >= v
        THEN [st |-> st, val |-> n.value, changedAt |-> n.changedAt]
        ELSE IF n.has /\ ~InvalidatedBetween(k, n.verifiedAt, v)
        THEN LET c == CheckDeps(n.deps, n.verifiedAt, st, v, f)
             IN  IF ~c.changed
                 THEN [st |-> [c.st EXCEPT !.node[k].verifiedAt = v],
                       val |-> n.value, changedAt |-> n.changedAt]
                 ELSE RunCompute(k, c.st, v, f)
        ELSE RunCompute(k, st, v, f)

EngineInit ==
    /\ version = 0
    /\ dirtied = [w \in 1..MaxVersion |-> {}]
    /\ tx = 0
    /\ node = [k \in GraphKeys |-> Absent]
    /\ lastRun = [k \in GraphKeys |-> -1]

\* read_dir at rest: no directory was listed.
ReadDirIdle ==
    /\ rdDir = CellPath("c", <<>>)
    /\ rdIgnores = DefaultIgnores
    /\ rdListing = <<>>
    /\ rdLast = {}

\* The keys the audit command asks for (one per providers label), and the
\* values a run of a key's compute function can come to.
ProvidersLabels == {"t1", "t2"}
ProvidersValues == {"v1", "v2"}

NoTask == [st |-> "none", partial |-> {}]
NoHist == [started |-> 0, cancelled |-> 0, discarded |-> {}, completed |-> {}]
Declared == [st |-> "declared", val |-> {}]

\* The concurrent requests at rest: nothing was declared or computed.
ConcIdle ==
    /\ cVersion = 0
    /\ cFuts = <<>>
    /\ cHandle = <<>>
    /\ cTask = [k \in ProvidersLabels |-> NoTask]
    /\ cCache = [k \in ProvidersLabels |-> {}]
    /\ cHist = [k \in ProvidersLabels |-> NoHist]

\* The output artifacts an analysis declares.
OutputArtifacts == {"o0", "o1", "o2"}

\* The dynamic registry at rest: new, with nothing registered.
DynIdle ==
    /\ deferred = <<>>
    /\ artifacts = [o \in OutputArtifacts |-> {}]
    /\ dynPending = <<>>
    /\ dynLive = TRUE
    /\ dynCalls = <<>>
    /\ dynBound = {}
    /\ dynLog = <<>>

\* The registry an analysis context is constructed with, and the promises
\* an analysis can have outstanding.
AnalysisRegistry(promises) == [name |-> "registry", promises |-> promises]

\* The analysis context at rest: constructed, nothing called on it.
CtxIdle ==
    /\ ctxState = {AnalysisRegistry({})}
    /\ ctxPc = "idle"
    /\ ctxBatch = {}
    /\ ctxLast = {}
    /\ ctxTaken = <<>>
    /\ ctxAborted = {}
    /\ ctxHist = [outstanding |-> {}, resolved |-> {}]
    /\ ctxShort = {}

\* The configuration constructor at rest: eval_cfg_constructor was not
\* called.
CfgIdle ==
    /\ cfgCalls = 0
    /\ cfgLast = {}

\* The files and the directory that buck-out can hold, as paths relative
\* to it.
BuckOutFiles == {<<"a">>, <<"d", "b">>, <<"d", "c">>}
BuckOutDirs == {<<"d">>, <<"d", "e">>}
NoBuckOut == [exists |-> FALSE, files |-> {}, dirs |-> {}]
FreeLock == [holder |-> "none", release_in |-> 0]

\* The clean command at rest: not invoked, nothing on disk.
CleanIdle ==
    /\ clDryRun = FALSE
    /\ clBuckOut = NoBuckOut
    /\ clDaemonDir = "absent"
    /\ clDaemon = FALSE
    /\ clLock = FreeLock
    /\ clPc = "exec"
    /\ clPaths = <<>>
    /\ clStderr = <<>>
    /\ clResult = {}
    /\ clLog = <<>>
    /\ clAttempts = <<>>
    /\ clTask = [f \in BuckOutFiles |-> "none"]
    /\ clError = {}
    /\ clRecorded = <<>>
    /\ clRuns = [f \in BuckOutFiles |-> 0]
    /\ clDirPaths = <<>>
    /\ clRemoved = <<>>

\* The audit providers command at rest: no target enumerated, nothing
\* written.
AuditIdle ==
    /\ apTargets = <<>>
    /\ apReady = {}
    /\ apOrder = <<>>
    /\ apEmitted = <<>>
    /\ apStdout = <<>>
    /\ apStderr = <<>>
    /\ apError = FALSE
    /\ apFlushed = {}
    /\ apPc = "loop"
    /\ apResult = {}

\* The kill module at rest: a running child, nothing asked.
KillIdle ==
    /\ kPlatform = "unix"
    /\ kProc = "running"
    /\ kLag = 0
    /\ kHandle = {}
    /\ kExists = <<>>
    /\ kPolls = <<>>

RestIdle == CtxIdle /\ CfgIdle /\ CleanIdle /\ AuditIdle /\ KillIdle

\* All that is outside the tracker and the graph, at rest.
OutsideGraphIdle == ReadDirIdle /\ ConcIdle /\ DynIdle /\ RestIdle

----------------------------------------------------------------------------
(* Actions of the tracker *)

TrackerInit ==
    /\ tracker = new
    /\ trackerLive = TRUE
    /\ events = {}
    /\ passed = <<>>

\* The tracker and the graph at rest.
GraphIdle ==
    /\ TrackerInit
    /\ changes = {}
    /\ EngineInit

\* One event method called on a live tracker.
Event(op, path) ==
    /\ trackerLive
    /\ Cardinality(events \cup {<<op, path>>}) <= MaxEvents
    /\ tracker' = ApplyEvent(tracker, op, path)
    /\ events' = events \cup {<<op, path>>}
    /\ UNCHANGED <<trackerLive, passed, changes>>
    /\ UNCHANGED engineVars
    /\ UNCHANGED outsideGraph

FileChanged == \E p \in CellPaths : Event("file_changed", p)
FileAdded == \E p \in CellPaths : Event("file_added", p)
FileRemoved == \E p \in CellPaths : Event("file_removed", p)
DirChanged == \E p \in CellPaths : Event("dir_changed", p)
DirAdded == \E p \in CellPaths : Event("dir_added", p)
DirRemoved == \E p \in CellPaths : Event("dir_removed", p)

\* write_to_dice(self, ctx): takes the tracker by value.
WriteToDice ==
    /\ trackerLive
    /\ passed' = write_to_dice(tracker)
    /\ changes' = ChangedAll(changes, write_to_dice(tracker))
    /\ trackerLive' = FALSE
    /\ UNCHANGED <<tracker, events>>
    /\ UNCHANGED engineVars
    /\ UNCHANGED outsideGraph

TrackerNext ==
    \/ FileChanged
    \/ FileAdded
    \/ FileRemoved
    \/ DirChanged
    \/ DirAdded
    \/ DirRemoved
    \/ WriteToDice

\* The tracker alone: the engine stands still.
SpecTrackerInit ==
    /\ TrackerInit
    /\ changes = {}
    /\ EngineInit
    /\ OutsideGraphIdle

SpecTracker == SpecTrackerInit /\ [][TrackerNext]_vars

----------------------------------------------------------------------------
(* Actions of the engine, and the tracker feeding it *)

\* The watcher's events about the two paths of the engine's keys.
WatchedPaths == {PathA, PathAB}

FileChangedW ==
    /\ version < MaxVersion
    /\ \E p \in WatchedPaths : Event("file_changed", p)

\* write_to_dice on the update transaction of the next version.
WriteToDiceW ==
    /\ version < MaxVersion
    /\ WriteToDice

\* FileChangeTracker::new, once the last tracker was flushed and committed.
NewTracker ==
    /\ version < MaxVersion
    /\ ~trackerLive
    /\ changes = {}
    /\ tracker' = new
    /\ trackerLive' = TRUE
    /\ events' = {}
    /\ passed' = <<>>
    /\ UNCHANGED changes
    /\ UNCHANGED engineVars
    /\ UNCHANGED outsideGraph

\* The update transaction commits: a new version, from which on the keys it
\* was given are dirty.
Commit ==
    /\ version < MaxVersion
    /\ changes # {}
    /\ version' = version + 1
    /\ dirtied' = [dirtied EXCEPT ![version + 1] = changes]
    /\ changes' = {}
    /\ UNCHANGED <<tx, node, lastRun>>
    /\ UNCHANGED trackerVars
    /\ UNCHANGED outsideGraph

\* The open transaction ends and the next one opens, pinned at the latest
\* version.
NewTx ==
    /\ tx < version
    /\ tx' = version
    /\ UNCHANGED <<changes, version, dirtied, node, lastRun>>
    /\ UNCHANGED trackerVars
    /\ UNCHANGED outsideGraph

\* ctx.compute(k) in the open transaction, with the filesystem in state f
\* while it runs.
Demand(k, f) ==
    /\ LET r == Eval(k, [node |-> node, lastRun |-> lastRun], tx, f)
       IN  /\ node' = r.st.node
           /\ lastRun' = r.st.lastRun
    /\ UNCHANGED <<changes, version, dirtied, tx>>
    /\ UNCHANGED trackerVars
    /\ UNCHANGED outsideGraph

\* The keys a transaction asks for directly.
DemandKeys == {PathMetadataKey(PathAB), KMeta(PathAB), KRead(PathAB)}

DemandFile == \E k \in DemandKeys : \E f \in FsStates : Demand(k, f)

Init ==
    /\ TrackerInit
    /\ changes = {}
    /\ EngineInit
    /\ OutsideGraphIdle

Next ==
    \/ FileChangedW
    \/ WriteToDiceW
    \/ NewTracker
    \/ Commit
    \/ NewTx
    \/ DemandFile

Spec == Init /\ [][Next]_vars

\* The same engine with the directory listing among the keys asked for, and
\* the events that dirty it.
DirChangedW ==
    /\ version < MaxVersion
    /\ Event("dir_changed", PathA)

FileRemovedW ==
    /\ version < MaxVersion
    /\ Event("file_removed", PathAB)

DirDemandKeys == {ReadDirKey(PathA), KDir(PathA), PathMetadataKey(PathAB)}

DemandDir == \E k \in DirDemandKeys : \E f \in FsStates : Demand(k, f)

NextDir ==
    \/ DirChangedW
    \/ FileRemovedW
    \/ WriteToDiceW
    \/ NewTracker
    \/ Commit
    \/ NewTx
    \/ DemandDir

SpecDir == Init /\ [][NextDir]_vars

\* The same engine with one client that lists the directory and one that
\* reads the file, and the events that dirty what they depend on.
FileChangedAB ==
    /\ version < MaxVersion
    /\ Event("file_changed", PathAB)

CutoffDemandKeys == {KDir(PathA), KRead(PathAB)}

DemandCutoff == \E k \in CutoffDemandKeys : \E f \in FsStates : Demand(k, f)

NextCutoff ==
    \/ DirChangedW
    \/ FileChangedAB
    \/ WriteToDiceW
    \/ NewTracker
    \/ Commit
    \/ NewTx
    \/ DemandCutoff

SpecCutoff == Init /\ [][NextCutoff]_vars

----------------------------------------------------------------------------
(* read_dir of the cell-aware delegate, on its own *)

\* The names a directory's entries can have, and each one's type.
EntryNames == {NameOrder[i] : i \in 1..Len(NameOrder)}
FileTypeOf(name) == IF name \in {"a", "target"} THEN "Directory" ELSE "File"

\* The listings the raw provider can return: entries with distinct names,
\* in any order.
RawListings ==
    {[i \in DOMAIN names |-> RawDirEntry(names[i], FileTypeOf(names[i]))] :
        names \in {n \in UNION {[1..len -> EntryNames] : len \in 0..MaxEntries} :
                      \A i, j \in DOMAIN n : n[i] = n[j] => i = j}}

\* The ignores a delegate can have.
IgnorePatterns == {AnyDepth("target"), Below(<<"a", "b">>), Below(<<"b">>)}
IgnoreSets ==
    {ig \in [CellNames -> SUBSET IgnorePatterns] : ig["root"] \subseteq {Below(<<"b">>)}}

\* The raw provider: the directory under rdDir holds rdListing, and no
\* other directory exists.
RawIo ==
    [pp \in ProjDirs |-> IF pp = resolve(rdDir) THEN Ok(rdListing) ELSE Err("not found")]

SameEntries(l1, l2) ==
    {l1[i] : i \in DOMAIN l1} = {l2[i] : i \in DOMAIN l2}

\* FileOps::read_dir called on the delegate.
ReadDir ==
    /\ rdLast' = {[raw |-> rdListing,
                   out |-> delegate_read_dir(DiceFileOpsDelegate(RawIo, rdIgnores),
                                             rdDir)]}
    /\ UNCHANGED <<rdDir, rdIgnores, rdListing>>
    /\ UNCHANGED outsideReadDir

\* The raw provider comes to return the same entries in another order.
Relist ==
    /\ \E l \in RawListings :
          /\ l # rdListing
          /\ SameEntries(l, rdListing)
          /\ rdListing' = l
    /\ UNCHANGED <<rdDir, rdIgnores, rdLast>>
    /\ UNCHANGED outsideReadDir

ReadDirInit ==
    /\ GraphIdle
    /\ ConcIdle
    /\ DynIdle
    /\ RestIdle
    /\ rdDir \in DirPaths
    /\ rdIgnores \in IgnoreSets
    /\ rdListing \in RawListings
    /\ rdLast = {}

ReadDirNext ==
    \/ ReadDir
    \/ Relist

SpecReadDir == ReadDirInit /\ [][ReadDirNext]_vars

----------------------------------------------------------------------------
(* Properties of the tracker, checked under SpecTracker *)

AllKeys(t) == t.files_to_dirty \cup t.dirs_to_dirty \cup t.paths_to_dirty

\* C1: for every CellPath p and every tracker state, file_changed(p) adds
\* exactly ReadFileKey(p) to files_to_dirty and PathMetadataKey(p) to
\* paths_to_dirty and leaves dirs_to_dirty as it was (the parent's ReadDirKey
\* is not added).
C1_FileChangedExact ==
    \A p \in CellPaths :
        file_changed(tracker, p) =
            [files_to_dirty |-> tracker.files_to_dirty \cup {ReadFileKey(p)},
             dirs_to_dirty |-> tracker.dirs_to_dirty,
             paths_to_dirty |-> tracker.paths_to_dirty \cup {PathMetadataKey(p)}]

\* A file_changed was recorded for a path with a parent, and neither the
\* parent's nor any other ReadDirKey is in the tracker.
C1_Witness ==
    /\ \E p \in CellPaths :
          /\ <<"file_changed", p>> \in events
          /\ parent(p) # {}
          /\ ReadFileKey(p) \in tracker.files_to_dirty
          /\ PathMetadataKey(p) \in tracker.paths_to_dirty
    /\ tracker.dirs_to_dirty = {}

\* C2 (as claimed): every dir_added(p) and dir_removed(p) recorded on the
\* tracker has dirtied PathMetadataKey(p) and ReadDirKey(p), whether or not
\* p has a parent, and ReadDirKey(parent(p)) when p has a parent.
C2_DirAddedRemovedDirties ==
    \A e \in events :
        e[1] \in {"dir_added", "dir_removed"} =>
            /\ PathMetadataKey(e[2]) \in tracker.paths_to_dirty
            /\ ReadDirKey(e[2]) \in tracker.dirs_to_dirty
            /\ \A q \in parent(e[2]) : ReadDirKey(q) \in tracker.dirs_to_dirty

\* C3: file_added(p) and file_removed(p) add exactly ReadFileKey(p),
\* PathMetadataKey(p) and, when p has a parent, ReadDirKey(parent(p)); for a
\* p without a parent no ReadDirKey is added; every added key is a key of
\* p's own cell.
C3_FileAddedRemovedExact ==
    \A p \in CellPaths :
        \A t \in {file_added(tracker, p), file_removed(tracker, p)} :
            /\ t.files_to_dirty = tracker.files_to_dirty \cup {ReadFileKey(p)}
            /\ t.paths_to_dirty = tracker.paths_to_dirty \cup {PathMetadataKey(p)}
            /\ t.dirs_to_dirty =
                  tracker.dirs_to_dirty \cup {ReadDirKey(q) : q \in parent(p)}
            /\ parent(p) = {} => t.dirs_to_dirty = tracker.dirs_to_dirty
            /\ \A k \in AllKeys(t) \ AllKeys(tracker) : k.path.cell = p.cell

\* A file was added at the root of cell c and a file was removed below it:
\* the only ReadDirKey in the tracker is the one of the second file's parent.
C3_Witness ==
    /\ <<"file_added", CellPath("c", <<>>)>> \in events
    /\ <<"file_removed", CellPath("c", <<"a", "b">>)>> \in events
    /\ tracker.dirs_to_dirty = {ReadDirKey(CellPath("c", <<"a">>))}
    /\ ReadFileKey(CellPath("c", <<>>)) \in tracker.files_to_dirty

\* C4: dir_changed(p) adds exactly PathMetadataKey(p) and ReadDirKey(p): no
\* ReadFileKey, and not the parent's ReadDirKey.
C4_DirChangedExact ==
    \A p \in CellPaths :
        dir_changed(tracker, p) =
            [files_to_dirty |-> tracker.files_to_dirty,
             dirs_to_dirty |-> tracker.dirs_to_dirty \cup {ReadDirKey(p)},
             paths_to_dirty |-> tracker.paths_to_dirty \cup {PathMetadataKey(p)}]

\* A dir_changed was recorded for a path with a parent; the tracker holds
\* that path's ReadDirKey alone and no ReadFileKey.
C4_Witness ==
    \E p \in CellPaths :
        /\ <<"dir_changed", p>> \in events
        /\ parent(p) # {}
        /\ tracker.dirs_to_dirty = {ReadDirKey(p)}
        /\ tracker.files_to_dirty = {}
        /\ PathMetadataKey(p) \in tracker.paths_to_dirty

\* The keys one event dirties on a tracker fresh from new().
EventKeys(e) == AllKeys(ApplyEvent(new, e[1], e[2]))

RECURSIVE UnionOfCalls(_)
UnionOfCalls(calls) ==
    IF calls = <<>> THEN {} ELSE Head(calls) \cup UnionOfCalls(Tail(calls))

----------------------------------------------------------------------------
(* The tracker as a function of the set of events, checked under SpecTracker *)

AllEvents == EventNames \X CellPaths

\* The tracker that holds, in each of its sets, what each event of evs puts
\* there on a tracker fresh from new().
TrackerOf(evs) ==
    [files_to_dirty |-> UNION {ApplyEvent(new, e[1], e[2]).files_to_dirty : e \in evs},
     dirs_to_dirty |-> UNION {ApplyEvent(new, e[1], e[2]).dirs_to_dirty : e \in evs},
     paths_to_dirty |-> UNION {ApplyEvent(new, e[1], e[2]).paths_to_dirty : e \in evs}]

\* C40: every step leaves each of the three sets with at least the keys it
\* had; in every state the tracker is the one determined by the set of the
\* events recorded so far, in whatever order and however often they were
\* recorded; and on every tracker reached, recording any event removes no
\* key, and recording it twice gives what recording it once gives.
C40_TrackerDependsOnEventSet ==
    /\ [][/\ tracker.files_to_dirty \subseteq tracker'.files_to_dirty
           /\ tracker.dirs_to_dirty \subseteq tracker'.dirs_to_dirty
           /\ tracker.paths_to_dirty \subseteq tracker'.paths_to_dirty]_vars
    /\ [](/\ tracker = TrackerOf(events)
          /\ \A e \in AllEvents :
                 LET once == ApplyEvent(tracker, e[1], e[2])
                 IN  /\ ApplyEvent(once, e[1], e[2]) = once
                     /\ AllKeys(tracker) \subseteq AllKeys(once))

\* Three events were recorded, two of which dirty a key in common, on a
\* tracker that held keys of all three kinds before the last of them.
C40_Witness ==
    /\ trackerLive
    /\ Cardinality(events) = 3
    /\ \E e, d \in events : e # d /\ EventKeys(e) \cap EventKeys(d) # {}
    /\ \E e, d \in events : e # d /\ EventKeys(e) \cap EventKeys(d) = {}
    /\ tracker.files_to_dirty # {} /\ tracker.dirs_to_dirty # {}

----------------------------------------------------------------------------
(* Properties of the flush and of the filesystem keys, checked under Spec *)

St == [node |-> node, lastRun |-> lastRun]

FileKey == ReadFileKey(PathAB)
MetaKey == PathMetadataKey(PathAB)

C7_ReadFileDependentsRerun ==
    /\ \A k \in GraphKeys :
          node[k].has =>
              \A i \in 1..Len(node[k].deps) :
                  node[k].deps[i].kind = "ReadFileKey" =>
                      \A w \in 1..node[k].verifiedAt :
                          node[k].deps[i] \in dirtied[w] => lastRun[k] >= w
    /\ \A k \in GraphKeys :
          k.kind = "ReadFileKey" /\ node[k].has =>
              /\ node[k].value = FileToken(k.path)
              /\ ~ReadFileKey_equality(node[k].value, node[k].value)
              /\ \A q \in WatchedPaths :
                    ~ReadFileKey_equality(node[k].value, FileToken(q))

\* The key that reads a/b was verified at version 1, where ReadFileKey(a/b)
\* was dirtied: it ran again there, and read the same bytes as before (its
\* own value did not change).
C7_Witness ==
    /\ node[KRead(PathAB)].has
    /\ node[KRead(PathAB)].verifiedAt = 1
    /\ node[KRead(PathAB)].changedAt = 0
    /\ FileKey \in dirtied[1]
    /\ lastRun[KRead(PathAB)] = 1
    /\ node[FileKey].has

\* C8: a cached PathMetadataKey whose metadata is a symlink with endpoint
\* `at` and which is verified at version v was computed at or after every
\* version up to v at which ReadFileKey(at) was dirtied: after a flushed
\* file_changed, file_added or file_removed of `at`, the next demand ran the
\* compute function again.
C8_SymlinkMetadataRerun ==
    \A k \in GraphKeys :
        k.kind = "PathMetadataKey" /\ node[k].has =>
            \A m \in node[k].value.val :
                m.tag = "Symlink" =>
                    \A w \in 1..node[k].verifiedAt :
                        ReadFileKey(m.at) \in dirtied[w] => lastRun[k] >= w

\* The metadata of a/b is a symlink at a; file_changed(a) alone was flushed
\* into version 1, and the metadata key ran again at version 1, giving the
\* same metadata.
C8_Witness ==
    /\ node[MetaKey].has
    /\ \E m \in node[MetaKey].value.val : m.tag = "Symlink" /\ m.at = PathA
    /\ ReadFileKey(PathA) \in dirtied[1]
    /\ MetaKey \notin dirtied[1]
    /\ node[MetaKey].verifiedAt = 1
    /\ node[MetaKey].changedAt = 0
    /\ lastRun[MetaKey] = 1

\* In this step the key K, cached from an earlier version, becomes verified
\* at the transaction's version, after a flush of file_changed(a/b) dirtied
\* ReadFileKey(a/b) and PathMetadataKey(a/b) in between.
FlushedAndVerified(K) ==
    /\ node[K].has
    /\ node[K].verifiedAt < tx
    /\ \E w \in (node[K].verifiedAt + 1)..tx : {FileKey, MetaKey} \subseteq dirtied[w]
    /\ node'[K].has
    /\ node'[K].verifiedAt = tx

\* PathMetadataKey(a/b) is re-evaluated at the transaction's version to
\* metadata equal to what it was when K was last verified.
MetadataUnchangedSince(K) ==
    /\ node'[MetaKey].has
    /\ node'[MetaKey].verifiedAt = tx
    /\ node'[MetaKey].changedAt <= node[K].verifiedAt

\* C9 (as claimed): whatever way K depends on the file, K is not re-executed
\* in the new version when the file has its old bytes and metadata.
C9_NoRerunOfAnyDependent ==
    [][\A K \in {KMeta(PathAB), KRead(PathAB)} :
           FlushedAndVerified(K) /\ MetadataUnchangedSince(K) =>
               lastRun'[K] = lastRun[K]]_vars

\* C9 (amended): the key that depends on the file through its
\* PathMetadataKey alone is not re-executed when the metadata key, last
\* verified with it, re-evaluates to the same metadata; the key that read
\* the file depends on its ReadFileKey and is re-executed.
C9_CutoffThroughMetadataOnly ==
    [][/\ ( /\ FlushedAndVerified(KMeta(PathAB))
            /\ node[MetaKey].has
            /\ node[MetaKey].verifiedAt = node[KMeta(PathAB)].verifiedAt
            /\ node'[MetaKey].has
            /\ node'[MetaKey].value = node[MetaKey].value )
          => lastRun'[KMeta(PathAB)] = lastRun[KMeta(PathAB)]
       /\ FlushedAndVerified(KRead(PathAB)) => lastRun'[KRead(PathAB)] = tx]_vars

\* file_changed(a/b) was flushed into version 1; the metadata key ran again
\* there and its value did not change; the key depending on it was verified
\* at version 1 without running since version 0.
C9_Witness ==
    /\ {FileKey, MetaKey} \subseteq dirtied[1]
    /\ node[MetaKey].has
    /\ lastRun[MetaKey] = 1
    /\ node[MetaKey].changedAt = 0
    /\ node[KMeta(PathAB)].has
    /\ node[KMeta(PathAB)].verifiedAt = 1
    /\ lastRun[KMeta(PathAB)] = 0

----------------------------------------------------------------------------
(* Properties of failed computations, checked under SpecDir *)

ErrorKeys == {ReadDirKey(PathA), PathMetadataKey(PathAB)}

\* C10: no node of a ReadFileKey, ReadDirKey or PathMetadataKey holds an
\* error; whatever the filesystem's state, a computation of a ReadDirKey or
\* PathMetadataKey that ends in an error gives a value that is not valid,
\* that is equal to no value, and that leaves no node behind; and a
\* dependent whose dependency fails is run again and not promoted.  (A
\* ReadFileKey's compute function cannot fail.)
C10_ErrorsNotCached ==
    /\ \A k \in GraphKeys :
          node[k].has =>
              /\ validity(k, node[k].value)
              /\ k.kind \in {"ReadDirKey", "PathMetadataKey"} => node[k].value.ok
              /\ k.kind = "ReadFileKey" => node[k].value = FileToken(k.path)
    /\ \A k \in ErrorKeys : \A f \in FsStates :
          LET r == RunCompute(k, St, tx, f)
          IN  ~r.val.ok =>
                  /\ ~validity(k, r.val)
                  /\ ~r.st.node[k].has
                  /\ \A x \in {r.val, node[k].value} :
                        ~equality(k, r.val, x) /\ ~equality(k, x, r.val)
    /\ \A f \in FsStates :
          LET d == Eval(ReadDirKey(PathA), St, tx, f)
              r == Eval(KDir(PathA), St, tx, f)
          IN  node[KDir(PathA)].has /\ ~d.val.ok =>
                  /\ r.st.lastRun[KDir(PathA)] = tx
                  /\ ~r.st.node[KDir(PathA)].has

\* At version 1 the listing, its dependent and the metadata key were all
\* computed again, and none of them left a node: each ended in an error.
C10_Witness ==
    /\ tx = 1
    /\ lastRun[ReadDirKey(PathA)] = 1 /\ ~node[ReadDirKey(PathA)].has
    /\ lastRun[KDir(PathA)] = 1 /\ ~node[KDir(PathA)].has
    /\ lastRun[MetaKey] = 1 /\ ~node[MetaKey].has

----------------------------------------------------------------------------
(* Properties of read_dir, checked under SpecReadDir *)

\* The cell-relative path of an entry of the listed directory.
ChildPath(name) == rdDir.path \o <<name>>

DirIsIgnored == check_ignored(rdIgnores, rdDir.cell, rdDir.path)

\* The entries of a raw listing that read_dir is to return.
Wanted(raw) ==
    {raw[i] : i \in {j \in DOMAIN raw :
                        /\ ~check_ignored(rdIgnores, rdDir.cell, ChildPath(raw[j].file_name))
                        /\ FileNameBuf_try_from(raw[j].file_name)}}

\* C11: a read_dir of a directory that is not ignored succeeds, and its
\* output is in ascending order of file_name, holds no entry whose
\* cell-relative path is ignored, and holds each entry of the raw listing
\* that is not ignored and has a valid file name, once.
C11_ReadDirSortedFiltered ==
    \A r \in rdLast :
        ~DirIsIgnored =>
            /\ r.out.res.ok
            /\ LET out == r.out.res.val
               IN  /\ \A i \in 1..(Len(out) - 1) :
                         NameRank(out[i].file_name) < NameRank(out[i + 1].file_name)
                   /\ \A i \in DOMAIN out :
                         ~check_ignored(rdIgnores, rdDir.cell,
                                        ChildPath(out[i].file_name))
                   /\ {out[i] : i \in DOMAIN out} = Wanted(r.raw)
                   /\ Len(out) = Cardinality(Wanted(r.raw))

\* A directory below the cell's root was listed: the raw listing came with
\* three entries out of order, one of them ignored, and two were returned.
C11_Witness ==
    \E r \in rdLast :
        /\ rdDir.path # <<>>
        /\ Len(r.raw) = 3
        /\ NameRank(r.raw[1].file_name) > NameRank(r.raw[2].file_name)
        /\ \E i \in DOMAIN r.raw :
              check_ignored(rdIgnores, rdDir.cell, ChildPath(r.raw[i].file_name))
        /\ r.out.res.ok
        /\ Len(r.out.res.val) = 2

\* C12: read_dir of a directory that is itself ignored returns an error and
\* has made no call of the raw provider's read_dir.
C12_IgnoredDirFailsBeforeListing ==
    \A r \in rdLast :
        DirIsIgnored => ~r.out.res.ok /\ r.out.io_calls = <<>>

\* read_dir was called on an ignored directory that holds entries.
C12_Witness ==
    \E r \in rdLast : DirIsIgnored /\ Len(r.raw) >= 2

\* C13: read_dir over the listing the raw provider returns now gives the
\* output of the latest call, which met the same entries in the order the
\* provider returned them then.
C13_ReadDirDeterministic ==
    \A r \in rdLast :
        SameEntries(r.raw, rdListing) =>
            delegate_read_dir(DiceFileOpsDelegate(RawIo, rdIgnores), rdDir).res
                = r.out.res

\* The latest call met the entries in another order than the provider
\* returns them now, and returned two or more of them.
C13_Witness ==
    \E r \in rdLast :
        /\ r.raw # rdListing
        /\ r.out.res.ok
        /\ Len(r.out.res.val) >= 2

----------------------------------------------------------------------------
(* Early cutoff, checked under SpecCutoff *)

DirKey == ReadDirKey(PathA)
DirClient == KDir(PathA)
ReadClient == KRead(PathAB)

\* k has a node from an earlier version and was not itself marked changed
\* since; d is a dependency whose node still holds the value k recorded and
\* was not evaluated in the open transaction.
Stale(k) ==
    /\ node[k].has
    /\ node[k].verifiedAt < tx
    /\ ~InvalidatedBetween(k, node[k].verifiedAt, tx)
RecordedDep(k, d) ==
    /\ node[d].has
    /\ node[d].changedAt <= node[k].verifiedAt
    /\ node[d].verifiedAt < tx
Dirty(d) == InvalidatedBetween(d, node[d].verifiedAt, tx)
Promoted(k, r) ==
    /\ r.st.lastRun[k] = lastRun[k]
    /\ r.st.node[k].verifiedAt = tx
    /\ r.val = node[k].value
Rerun(k, r) == r.st.lastRun[k] = tx

\* C15: when the client of a listing is demanded in a later version, it is
\* promoted without a run if the listing was not dirtied or is read again
\* as an equal sequence, and it is run again if the dirtied listing is read
\* as another sequence or as an error; the client of a ReadFileKey, whose
\* values are never equal, is run again whenever that key was dirtied and
\* promoted when it was not.
C15_EarlyCutoff ==
    \A f \in FsStates :
        /\ Stale(DirClient) /\ RecordedDep(DirClient, DirKey) =>
              LET listed == delegate_read_dir(
                             DiceFileOpsDelegate(
                                 [pp \in ProjDirs |-> io_read_dir(f, pp)],
                                 DefaultIgnores),
                             PathA).res
                  old == node[DirKey].value
                  r == Eval(DirClient, St, tx, f)
              IN  IF ~Dirty(DirKey) \/ (listed.ok /\ listed.val = old.val)
                  THEN Promoted(DirClient, r)
                  ELSE Rerun(DirClient, r)
        /\ Stale(ReadClient) /\ RecordedDep(ReadClient, ReadFileKey(PathAB)) =>
              LET r == Eval(ReadClient, St, tx, f)
              IN  IF ~Dirty(ReadFileKey(PathAB))
                  THEN Promoted(ReadClient, r)
                  ELSE Rerun(ReadClient, r)

\* In version 1 the listing was read again and its client was promoted
\* without a run, while the client of the dirtied file was run again.
C15_Witness ==
    /\ tx = 1
    /\ lastRun[DirKey] = 1
    /\ lastRun[DirClient] = 0
    /\ node[DirClient].has /\ node[DirClient].verifiedAt = 1
    /\ lastRun[ReadClient] = 1

----------------------------------------------------------------------------
(* Concurrent requests: the audit command's compute_many over the engine *)

Handles == DOMAIN cHandle
Settled == \A i \in Handles : cHandle[i].st \in {"ready", "dropped"}

\* Whether a request has to start a run of the key's compute function.
MustStart(k) == cCache[k] = {} /\ cTask[k].st = "none"

\* Mutation: every request that finds no memoized value starts a run.
Poll_never_joins(i) ==
    LET k == cFuts[i]
    IN  /\ cHandle[i].st = "declared"
        /\ IF cCache[k] # {}
           THEN /\ cHandle' = [cHandle EXCEPT ![i] = [st |-> "ready", val |-> cCache[k]]]
                /\ UNCHANGED <<cTask, cHist>>
           ELSE /\ cTask' = [cTask EXCEPT ![k] = [st |-> "running", partial |-> {}]]
                /\ cHist' = [cHist EXCEPT ![k].started = @ + 1]
                /\ cHandle' = [cHandle EXCEPT ![i].st = "waiting"]
        /\ UNCHANGED <<cVersion, cFuts, cCache>>
        /\ UNCHANGED outsideConc

\* A handle of compute_many is polled for the first time: its closure calls
\* ctx.get_providers(label), which is compute(key).  A memoized value is
\* returned as it is; a computation in flight is joined; otherwise the
\* key's compute function is started.
Poll(i) ==
    LET k == cFuts[i]
    IN  /\ cHandle[i].st = "declared"
        /\ cTask[k].st # "signalled"
        /\ IF cCache[k] # {}
           THEN /\ cHandle' = [cHandle EXCEPT ![i] = [st |-> "ready", val |-> cCache[k]]]
                /\ UNCHANGED <<cTask, cHist>>
           ELSE IF MustStart(k)
           THEN /\ cTask' = [cTask EXCEPT ![k] = [st |-> "running", partial |-> {}]]
                /\ cHist' = [cHist EXCEPT ![k].started = @ + 1]
                /\ cHandle' = [cHandle EXCEPT ![i].st = "waiting"]
           ELSE /\ cHandle' = [cHandle EXCEPT ![i].st = "waiting"]
                /\ UNCHANGED <<cTask, cHist>>
        /\ UNCHANGED <<cVersion, cFuts, cCache>>
        /\ UNCHANGED outsideConc

PollHandle == \E i \in Handles : Poll(i)

\* A run of a compute function builds its value.  It completes in a later
\* step, so that a cancellation can meet it with a value in hand.
Build(k, val) ==
    /\ cTask[k].st \in {"running", "signalled"}
    /\ cTask[k].partial = {}
    /\ cTask' = [cTask EXCEPT ![k].partial = {val}]
    /\ UNCHANGED <<cVersion, cFuts, cHandle, cCache, cHist>>
    /\ UNCHANGED outsideConc

BuildValue == \E k \in ProvidersLabels : \E val \in ProvidersValues : Build(k, val)

\* A run that was not cancelled completes: its value is stored.
Complete(k) ==
    /\ cTask[k].st = "running"
    /\ cTask[k].partial # {}
    /\ cCache' = [cCache EXCEPT ![k] = cTask[k].partial]
    /\ cHist' = [cHist EXCEPT ![k].completed = @ \cup cTask[k].partial]
    /\ cTask' = [cTask EXCEPT ![k] = NoTask]
    /\ UNCHANGED <<cVersion, cFuts, cHandle>>
    /\ UNCHANGED outsideConc

CompleteRun == \E k \in ProvidersLabels : Complete(k)

\* A waiting handle is given the value its key's computation stored.
Deliver(i) ==
    /\ cHandle[i].st = "waiting"
    /\ cCache[cFuts[i]] # {}
    /\ cHandle' = [cHandle EXCEPT ![i] = [st |-> "ready", val |-> cCache[cFuts[i]]]]
    /\ UNCHANGED <<cVersion, cFuts, cTask, cCache, cHist>>
    /\ UNCHANGED outsideConc

DeliverValue == \E i \in Handles : Deliver(i)

CancelCount == cHist["t1"].cancelled + cHist["t2"].cancelled

\* The transaction ends, or a cancellation from above fires: the handles
\* without a value are dropped and the computations in flight are
\* signalled.
EndTransaction ==
    /\ \E k \in ProvidersLabels : cTask[k].st = "running"
    /\ CancelCount + Cardinality({k \in ProvidersLabels : cTask[k].st # "none"})
          <= MaxCancels
    /\ cHandle' = [i \in Handles |->
                      IF cHandle[i].st = "ready" THEN cHandle[i]
                      ELSE [st |-> "dropped", val |-> {}]]
    /\ cTask' = [k \in ProvidersLabels |->
                    IF cTask[k].st = "running"
                    THEN [cTask[k] EXCEPT !.st = "signalled"]
                    ELSE cTask[k]]
    /\ UNCHANGED <<cVersion, cFuts, cCache, cHist>>
    /\ UNCHANGED outsideConc

\* Mutation: the cancelled run leaves the value it had built in the cache.
Unwind_publishes(k) ==
    /\ cTask[k].st = "signalled"
    /\ cTask' = [cTask EXCEPT ![k] = NoTask]
    /\ cCache' = [cCache EXCEPT ![k] = cTask[k].partial]
    /\ cHist' = [cHist EXCEPT ![k].cancelled = @ + 1,
                              ![k].discarded = @ \cup cTask[k].partial]
    /\ UNCHANGED <<cVersion, cFuts, cHandle>>
    /\ UNCHANGED outsideConc

\* A signalled run unwinds: what it had built is discarded.
Unwind(k) ==
    /\ cTask[k].st = "signalled"
    /\ cTask' = [cTask EXCEPT ![k] = NoTask]
    /\ cHist' = [cHist EXCEPT ![k].cancelled = @ + 1,
                              ![k].discarded = @ \cup cTask[k].partial]
    /\ UNCHANGED <<cVersion, cFuts, cHandle, cCache>>
    /\ UNCHANGED outsideConc

UnwindRun == \E k \in ProvidersLabels : Unwind(k)

\* server_execute_with_dice runs again in a new transaction at the same
\* version: the same closures are declared and handed to compute_many.
ComputeMany ==
    /\ Settled
    /\ cHandle' = [i \in Handles |-> Declared]
    /\ UNCHANGED <<cVersion, cFuts, cTask, cCache, cHist>>
    /\ UNCHANGED outsideConc

\* An update commits with every key invalidated, and the command runs in a
\* transaction at the new version.
NextVersion ==
    /\ cVersion < MaxVersion
    /\ Settled
    /\ \A k \in ProvidersLabels : cTask[k].st = "none"
    /\ cVersion' = cVersion + 1
    /\ cCache' = [k \in ProvidersLabels |-> {}]
    /\ cHist' = [k \in ProvidersLabels |-> NoHist]
    /\ cHandle' = [i \in Handles |-> Declared]
    /\ UNCHANGED <<cFuts, cTask>>
    /\ UNCHANGED outsideConc

\* server_execute_with_dice: one closure per target, each asking for the
\* providers of its label; several targets can come to the same label.
ConcInit ==
    /\ GraphIdle
    /\ ReadDirIdle
    /\ DynIdle
    /\ RestIdle
    /\ cVersion = 0
    /\ cFuts \in UNION {[1..n -> ProvidersLabels] : n \in 1..MaxFuts}
    /\ cHandle = [i \in DOMAIN cFuts |-> Declared]
    /\ cTask = [k \in ProvidersLabels |-> NoTask]
    /\ cCache = [k \in ProvidersLabels |-> {}]
    /\ cHist = [k \in ProvidersLabels |-> NoHist]

ConcNext ==
    \/ PollHandle
    \/ BuildValue
    \/ CompleteRun
    \/ DeliverValue
    \/ EndTransaction
    \/ UnwindRun
    \/ ComputeMany
    \/ NextVersion

SpecConc == ConcInit /\ [][ConcNext]_vars

----------------------------------------------------------------------------
(* Properties of concurrent requests, checked under SpecConc *)

C16_CancelledNeverStored ==
    \A k \in ProvidersLabels :
        /\ cCache[k] \subseteq cHist[k].completed
        /\ Cardinality(cCache[k]) <= 1
        /\ cHist[k].completed = {} => cCache[k] = {}

\* A run was cancelled with a value in hand, the value was discarded, and
\* the key has no memoized value.
C16_Witness ==
    \E k \in ProvidersLabels :
        /\ cHist[k].cancelled = 1
        /\ cHist[k].discarded # {}
        /\ cTask[k].st = "none"
        /\ cCache[k] = {}

----------------------------------------------------------------------------
(* DeferredRegistry, artifacts and lambdas, as the dynamic registry uses them *)

\* The entries of the deferred registry: a reservation not yet bound, a
\* reservation bound to its data, and a deferred DynamicAction.
ReservedDeferredData == [kind |-> "reserved", lambda |-> -1, index |-> -1, data |-> {}]
BoundDeferredData(data) == [kind |-> "bound", lambda |-> -1, index |-> -1, data |-> {data}]
DynamicAction(lambda_id, i) == [kind |-> "action", lambda |-> lambda_id, index |-> i, data |-> {}]

\* DeferredRegistry::reserve, defer and bind.  A DeferredId is the place of
\* its entry, counted from 0.
reserve(registry) ==
    [registry |-> Append(registry, ReservedDeferredData), id |-> Len(registry)]
defer(registry, d) ==
    [registry |-> Append(registry, d), id |-> Len(registry)]
registry_bind(registry, id, data) ==
    [registry EXCEPT ![id + 1] = BoundDeferredData(data)]

ActionKey(deferred_id) == [deferred_id |-> deferred_id]

\* OutputArtifact::bind: an output artifact is bound once.
OutputArtifact_bind(arts, output, key) ==
    IF arts[output] = {}
    THEN Ok([arts EXCEPT ![output] = {key}])
    ELSE Err("already bound")

\* DynamicLambda::new and DynamicLambda::bind.  executed tells whether the
\* lambda's body was evaluated.
DynamicLambda(owner, dynamic, inputs, outputs) ==
    [owner |-> owner, dynamic |-> dynamic, inputs |-> inputs, outputs |-> outputs,
     attributes_lambda |-> {}, executed |-> FALSE]
DynamicLambda_bind(lambda, fv) == [lambda EXCEPT !.attributes_lambda = {fv}]

----------------------------------------------------------------------------
(* DynamicRegistry *)

Owner == "owner"

\* DynamicRegistry::new
DynamicRegistry_new(owner) == [owner |-> owner, pending |-> <<>>]

\* Mutation: the actions are deferred and the outputs are left unbound.
RECURSIVE bind_outputs_leaves_unbound(_, _, _, _, _)
bind_outputs_leaves_unbound(outputs, i, reserved, registry, arts) ==
    IF i >= Len(outputs)
    THEN [ok |-> TRUE, registry |-> registry, arts |-> arts, bound |-> <<>>]
    ELSE LET d == defer(registry, DynamicAction(reserved, i))
             rest == bind_outputs_leaves_unbound(outputs, i + 1, reserved,
                                                 d.registry, arts)
         IN  [ok |-> TRUE, registry |-> rest.registry, arts |-> arts,
              bound |-> <<[artifact |-> outputs[i + 1],
                           key |-> ActionKey(d.id)]>> \o rest.bound]

\* Mutation: every output is bound to the action with index 0.
RECURSIVE bind_outputs_index_zero(_, _, _, _, _)
bind_outputs_index_zero(outputs, i, reserved, registry, arts) ==
    IF i >= Len(outputs)
    THEN [ok |-> TRUE, registry |-> registry, arts |-> arts, bound |-> <<>>]
    ELSE LET d == defer(registry, DynamicAction(reserved, 0))
             b == OutputArtifact_bind(arts, outputs[i + 1], ActionKey(d.id))
         IN  IF ~b.ok
             THEN [ok |-> FALSE, registry |-> d.registry, arts |-> arts, bound |-> <<>>]
             ELSE LET rest == bind_outputs_index_zero(outputs, i + 1, reserved,
                                                      d.registry, b.val)
                  IN  [ok |-> rest.ok, registry |-> rest.registry, arts |-> rest.arts,
                       bound |-> IF rest.ok
                                 THEN <<[artifact |-> outputs[i + 1],
                                         key |-> ActionKey(d.id)]>> \o rest.bound
                                 ELSE <<>>]

\* Mutation: an output is bound before its action is deferred, so that the
\* output that cannot be bound leaves no action behind.
RECURSIVE bind_outputs_binds_before_defer(_, _, _, _, _)
bind_outputs_binds_before_defer(outputs, i, reserved, registry, arts) ==
    IF i >= Len(outputs)
    THEN [ok |-> TRUE, registry |-> registry, arts |-> arts, bound |-> <<>>]
    ELSE LET d == defer(registry, DynamicAction(reserved, i))
             b == OutputArtifact_bind(arts, outputs[i + 1], ActionKey(d.id))
         IN  IF ~b.ok
             THEN [ok |-> FALSE, registry |-> registry, arts |-> arts, bound |-> <<>>]
             ELSE LET rest == bind_outputs_binds_before_defer(outputs, i + 1, reserved,
                                                              d.registry, b.val)
                  IN  [ok |-> rest.ok, registry |-> rest.registry, arts |-> rest.arts,
                       bound |-> IF rest.ok
                                 THEN <<[artifact |-> outputs[i + 1],
                                         key |-> ActionKey(d.id)]>> \o rest.bound
                                 ELSE <<>>]

\* register: outputs.iter().enumerate().map(..).collect::<Result<_>>() from
\* the output with index i on.  Each output has a DynamicAction deferred for
\* it and is bound to that action's key; the first output that cannot be
\* bound ends the loop, with what was deferred and bound so far left as it
\* is.
RECURSIVE bind_outputs(_, _, _, _, _)
bind_outputs(outputs, i, reserved, registry, arts) ==
    IF i >= Len(outputs)
    THEN [ok |-> TRUE, registry |-> registry, arts |-> arts, bound |-> <<>>]
    ELSE LET d == defer(registry, DynamicAction(reserved, i))
             b == OutputArtifact_bind(arts, outputs[i + 1], ActionKey(d.id))
         IN  IF ~b.ok
             THEN [ok |-> FALSE, registry |-> d.registry, arts |-> arts, bound |-> <<>>]
             ELSE LET rest == bind_outputs(outputs, i + 1, reserved, d.registry, b.val)
                  IN  [ok |-> rest.ok, registry |-> rest.registry, arts |-> rest.arts,
                       bound |-> IF rest.ok
                                 THEN <<[artifact |-> outputs[i + 1],
                                         key |-> ActionKey(d.id)]>> \o rest.bound
                                 ELSE <<>>]

\* A step in the life of the lambda with the identity id.
Step(what, id) == [what |-> what, id |-> id]

\* Mutation: the lambda is constructed first and its identity reserved
\* after it.
register_constructs_first(self, dynamic, inputs, outputs, registry, arts) ==
    LET reserved == reserve(registry)
        out == bind_outputs(outputs, 0, reserved.id, reserved.registry, arts)
        lambda == DynamicLambda(self.owner, dynamic, inputs, out.bound)
        lambda_id == reserved.id
    IN  [self |-> [self EXCEPT !.pending =
                       Append(@, [reserved |-> reserved.id, lambda |-> lambda])],
         registry |-> out.registry, arts |-> out.arts,
         res |-> IF out.ok THEN Ok(lambda_id) ELSE Err("already bound"),
         steps |-> <<Step("constructed", lambda_id), Step("reserved", lambda_id)>>]

\* DynamicRegistry::register.  steps lists what the call did to the lambda's
\* identity, in the order of its statements: registry.reserve comes first,
\* DynamicLambda::new after the outputs are bound, and not at all when an
\* output cannot be bound.
register(self, dynamic, inputs, outputs, registry, arts) ==
    LET reserved == reserve(registry)
        out == bind_outputs(outputs, 0, reserved.id, reserved.registry, arts)
        lambda == DynamicLambda(self.owner, dynamic, inputs, out.bound)
        lambda_id == reserved.id
    IN  IF ~out.ok
        THEN [self |-> self, registry |-> out.registry, arts |-> out.arts,
              res |-> Err("already bound"),
              steps |-> <<Step("reserved", lambda_id)>>]
        ELSE [self |-> [self EXCEPT !.pending =
                            Append(@, [reserved |-> reserved.id, lambda |-> lambda])],
              registry |-> out.registry, arts |-> out.arts,
              res |-> Ok(lambda_id),
              steps |-> <<Step("reserved", lambda_id), Step("constructed", lambda_id)>>]

\* What AnalysisValueFetcher::get can hold for an id: nothing, a value that
\* is no lambda implementation, or an implementation.
Implementations == {"impl1", "impl2"}
FetchValues == {"none", "wrong type"} \cup Implementations

\* Mutation: a lambda without an implementation is bound as it is.
RECURSIVE ensure_bound_skips_missing(_, _, _)
ensure_bound_skips_missing(pending_lambdas, registry, analysis_value_fetcher) ==
    IF pending_lambdas = <<>>
    THEN [res |-> Ok("unit"), registry |-> registry]
    ELSE LET key == Head(pending_lambdas).reserved
             data == Head(pending_lambdas).lambda
             fv == analysis_value_fetcher[key]
         IN  IF fv \notin Implementations
             THEN ensure_bound_skips_missing(Tail(pending_lambdas),
                                             registry_bind(registry, key, data),
                                             analysis_value_fetcher)
             ELSE ensure_bound_skips_missing(
                      Tail(pending_lambdas),
                      registry_bind(registry, key, DynamicLambda_bind(data, fv)),
                      analysis_value_fetcher)

\* Mutation: every lambda is given the implementation fetched for the first
\* pending one.
RECURSIVE ensure_bound_first_id(_, _, _)
ensure_bound_first_id(pending_lambdas, registry, analysis_value_fetcher) ==
    IF pending_lambdas = <<>>
    THEN [res |-> Ok("unit"), registry |-> registry]
    ELSE LET key == Head(pending_lambdas).reserved
             data == Head(pending_lambdas).lambda
             fv == analysis_value_fetcher[
                       CHOOSE id \in DOMAIN analysis_value_fetcher :
                           \A other \in DOMAIN analysis_value_fetcher : id <= other]
         IN  IF fv = "none"
             THEN [res |-> Err("Key is missing in AnalysisValueFetcher"),
                   registry |-> registry]
             ELSE IF fv = "wrong type"
             THEN [res |-> Err("Incorrect type"), registry |-> registry]
             ELSE ensure_bound_first_id(
                      Tail(pending_lambdas),
                      registry_bind(registry, key, DynamicLambda_bind(data, fv)),
                      analysis_value_fetcher)

\* Mutation: a pass commits either every pending lambda or none.
ensure_bound_all_or_nothing(pending_lambdas, registry, analysis_value_fetcher) ==
    LET unbound == {i \in DOMAIN pending_lambdas :
                       analysis_value_fetcher[pending_lambdas[i].reserved]
                           \notin Implementations}
        first == CHOOSE i \in unbound : \A j \in unbound : i <= j
    IN  IF unbound # {}
        THEN [res |-> IF analysis_value_fetcher[pending_lambdas[first].reserved] = "none"
                      THEN Err("Key is missing in AnalysisValueFetcher")
                      ELSE Err("Incorrect type"),
              registry |-> registry]
        ELSE [res |-> Ok("unit"),
              registry |->
                  [id \in DOMAIN registry |->
                      IF \E i \in DOMAIN pending_lambdas :
                             pending_lambdas[i].reserved + 1 = id
                      THEN LET i == CHOOSE i \in DOMAIN pending_lambdas :
                                        pending_lambdas[i].reserved + 1 = id
                           IN  BoundDeferredData(
                                   DynamicLambda_bind(
                                       pending_lambdas[i].lambda,
                                       analysis_value_fetcher[pending_lambdas[i].reserved]))
                      ELSE registry[id]]]

\* DynamicRegistry::ensure_bound: the loop over self.pending.  The first
\* lambda without an implementation of the right type ends it with an
\* error; the lambdas before it stay bound.
RECURSIVE ensure_bound(_, _, _)
ensure_bound(pending_lambdas, registry, analysis_value_fetcher) ==
    IF pending_lambdas = <<>>
    THEN [res |-> Ok("unit"), registry |-> registry]
    ELSE LET key == Head(pending_lambdas).reserved
             data == Head(pending_lambdas).lambda
             fv == analysis_value_fetcher[key]
         IN  IF fv = "none"
             THEN [res |-> Err("Key is missing in AnalysisValueFetcher"),
                   registry |-> registry]
             ELSE IF fv = "wrong type"
             THEN [res |-> Err("Incorrect type"), registry |-> registry]
             ELSE ensure_bound(
                      Tail(pending_lambdas),
                      registry_bind(registry, key, DynamicLambda_bind(data, fv)),
                      analysis_value_fetcher)

\* The sequences of distinct output artifacts one register call is given.
OutputSeqs ==
    {o \in UNION {[1..n -> OutputArtifacts] : n \in 0..MaxOutputs} :
        \A i, j \in DOMAIN o : o[i] = o[j] => i = j}

\* register called on the analysis's dynamic registry.
Register ==
    /\ dynLive
    /\ Len(dynCalls) < MaxRegister
    /\ \E outputs \in OutputSeqs :
          LET r == register([owner |-> Owner, pending |-> dynPending],
                            {"dyn"}, {"in"}, outputs, deferred, artifacts)
          IN  /\ deferred' = r.registry
              /\ artifacts' = r.arts
              /\ dynPending' = r.self.pending
              /\ dynCalls' = Append(dynCalls, [outputs |-> outputs, res |-> r.res])
              /\ dynLog' = dynLog \o r.steps
    /\ UNCHANGED <<dynLive, dynBound>>
    /\ UNCHANGED outsideDyn

PendingIds == {dynPending[i].reserved : i \in DOMAIN dynPending}

\* The steps of one ensure_bound pass: the lambdas it committed with their
\* implementation, in the order of pending.
RECURSIVE BoundSteps(_, _, _)
BoundSteps(pending_lambdas, before, after) ==
    IF pending_lambdas = <<>>
    THEN <<>>
    ELSE LET id == Head(pending_lambdas).reserved
         IN  (IF before[id + 1] # after[id + 1] /\ after[id + 1].kind = "bound"
              THEN <<Step("bound", id)>>
              ELSE <<>>)
             \o BoundSteps(Tail(pending_lambdas), before, after)

\* ensure_bound(self, ..): takes the dynamic registry by value.
EnsureBound ==
    /\ dynLive
    /\ \E fetcher \in [PendingIds -> FetchValues] :
          LET r == ensure_bound(dynPending, deferred, fetcher)
          IN  /\ deferred' = r.registry
              /\ dynBound' = {[fetcher |-> fetcher, res |-> r.res]}
              /\ dynLog' = dynLog \o BoundSteps(dynPending, deferred, r.registry)
    /\ dynLive' = FALSE
    /\ UNCHANGED <<artifacts, dynPending, dynCalls>>
    /\ UNCHANGED outsideDyn

DynInit ==
    /\ GraphIdle
    /\ ReadDirIdle
    /\ ConcIdle
    /\ RestIdle
    /\ deferred = <<>>
    /\ artifacts = [o \in OutputArtifacts |-> {}]
    /\ dynPending = DynamicRegistry_new(Owner).pending
    /\ dynLive = TRUE
    /\ dynCalls = <<>>
    /\ dynBound = {}
    /\ dynLog = <<>>

DynNext ==
    \/ Register
    \/ EnsureBound

SpecDyn == DynInit /\ [][DynNext]_vars

----------------------------------------------------------------------------
(* Properties of the dynamic registry, checked under SpecDyn *)

Reservations == {id \in 0..(Len(deferred) - 1) : deferred[id + 1].kind # "action"}
ActionsOf(id) ==
    {a \in 0..(Len(deferred) - 1) :
        deferred[a + 1].kind = "action" /\ deferred[a + 1].lambda = id}
Registered == {i \in DOMAIN dynCalls : dynCalls[i].res.ok}
PendingOf(id) == {i \in DOMAIN dynPending : dynPending[i].reserved = id}

\* C17: every register call took one reservation; a call that succeeded
\* with n outputs returned the id of its reservation, left exactly n
\* DynamicActions of that reservation with the indices 0..n-1, bound the
\* i-th output to the key of the action with index i, and appended one
\* lambda with these bound outputs, in order, to pending.
C17_RegisterBindsOutputsByIndex ==
    /\ Cardinality(Reservations) = Len(dynCalls)
    /\ \A c, e \in Registered : dynCalls[c].res.val = dynCalls[e].res.val => c = e
    /\ \A c \in Registered :
          LET id == dynCalls[c].res.val
              outputs == dynCalls[c].outputs
              n == Len(outputs)
          IN  /\ id \in Reservations
              /\ Cardinality(ActionsOf(id)) = n
              /\ {deferred[a + 1].index : a \in ActionsOf(id)} = 0..(n - 1)
              /\ \A i \in 0..(n - 1) :
                    \E a \in ActionsOf(id) :
                        /\ deferred[a + 1].index = i
                        /\ artifacts[outputs[i + 1]] = {ActionKey(a)}
              /\ Cardinality(PendingOf(id)) = 1
              /\ \A p \in PendingOf(id) :
                    dynPending[p].lambda.outputs =
                        [i \in 1..n |-> [artifact |-> outputs[i],
                                         key |-> CHOOSE k \in artifacts[outputs[i]] : TRUE]]

\* The second register call was given two outputs and succeeded, after a
\* first one that had bound an output of its own.
C17_Witness ==
    /\ Len(dynCalls) = 2
    /\ dynCalls[1].res.ok /\ Len(dynCalls[1].outputs) >= 1
    /\ dynCalls[2].res.ok /\ Len(dynCalls[2].outputs) = 2

FirstUnbound(fetcher) ==
    {i \in DOMAIN dynPending :
        /\ fetcher[dynPending[i].reserved] \notin Implementations
        /\ \A j \in 1..(i - 1) : fetcher[dynPending[j].reserved] \in Implementations}

\* C18: pending holds the lambdas of the successful register calls in the
\* order of the calls; after an ensure_bound that succeeded, every one of
\* them is committed in the deferred registry under its own reservation id,
\* carrying the implementation the fetcher holds for that id, and nothing
\* else is committed; an ensure_bound that failed had committed the lambdas
\* before the first one it could not bind, and no other.
C18_EnsureBoundBindsAllInOrder ==
    /\ [i \in DOMAIN dynPending |-> dynPending[i].reserved]
          = [i \in DOMAIN dynPending |->
                dynCalls[CHOOSE c \in Registered :
                            Cardinality({e \in Registered : e <= c}) = i].res.val]
    /\ Len(dynPending) = Cardinality(Registered)
    /\ \A r \in dynBound :
          LET upto == IF r.res.ok
                      THEN Len(dynPending)
                      ELSE (CHOOSE i \in FirstUnbound(r.fetcher) : TRUE) - 1
          IN  /\ r.res.ok <=> FirstUnbound(r.fetcher) = {}
              /\ \A i \in 1..upto :
                    deferred[dynPending[i].reserved + 1] =
                        BoundDeferredData(
                            [dynPending[i].lambda EXCEPT !.attributes_lambda =
                                {r.fetcher[dynPending[i].reserved]}])
              /\ {id \in Reservations : deferred[id + 1].kind = "bound"}
                    = {dynPending[i].reserved : i \in 1..upto}

\* ensure_bound succeeded on two registered lambdas whose implementations
\* differ.
C18_Witness ==
    \E r \in dynBound :
        /\ r.res.ok
        /\ Len(dynPending) = 2
        /\ r.fetcher[dynPending[1].reserved] # r.fetcher[dynPending[2].reserved]

KeyIsMissing == Err("Key is missing in AnalysisValueFetcher")

OutputsBound(lambda, arts) ==
    \A i \in DOMAIN lambda.outputs :
        arts[lambda.outputs[i].artifact] = {lambda.outputs[i].key}

\* C20: a lambda enters pending with all its outputs bound and without an
\* implementation; a step that attaches an implementation to a lambda finds
\* the lambda in pending with all its outputs bound already; and no lambda,
\* pending or committed, has had its body evaluated.
C20_OutputsBoundBeforeImplementation ==
    [][/\ \A i \in DOMAIN dynPending' :
              /\ OutputsBound(dynPending'[i].lambda, artifacts')
              /\ dynPending'[i].lambda.attributes_lambda = {}
              /\ ~dynPending'[i].lambda.executed
       /\ \A id \in 0..(Len(deferred') - 1) :
              deferred'[id + 1].kind = "bound" =>
                  /\ id < Len(deferred) /\ deferred[id + 1].kind = "reserved"
                  /\ \E p \in PendingOf(id) :
                        /\ OutputsBound(dynPending[p].lambda, artifacts)
                        /\ dynPending[p].lambda.outputs
                              = (CHOOSE d \in deferred'[id + 1].data : TRUE).outputs
                  /\ \A d \in deferred'[id + 1].data : ~d.executed
      ]_vars

\* A lambda registered with two outputs has been given its implementation.
C20_Witness ==
    \E id \in Reservations :
        /\ deferred[id + 1].kind = "bound"
        /\ \E d \in deferred[id + 1].data :
              Len(d.outputs) = 2 /\ d.attributes_lambda # {}

\* The steps logged for the identity id, in the order they were taken.
RECURSIVE StepsOf(_, _)
StepsOf(log, id) ==
    IF log = <<>>
    THEN <<>>
    ELSE (IF Head(log).id = id THEN <<Head(log).what>> ELSE <<>>)
         \o StepsOf(Tail(log), id)

IsPrefixOf(s, t) == Len(s) <= Len(t) /\ \A i \in DOMAIN s : s[i] = t[i]

LoggedIds == {dynLog[i].id : i \in DOMAIN dynLog}

\* C21 (as claimed): each lambda goes through constructed, reserved, bound,
\* executed in this order, the construction before the reservation.
C21_ConstructedThenReserved ==
    \A id \in LoggedIds :
        IsPrefixOf(StepsOf(dynLog, id),
                   <<"constructed", "reserved", "bound", "executed">>)

\* C21: each lambda identity is reserved first, the lambda is constructed
\* after its identity is reserved (and not at all when an output cannot be
\* bound), and the lambda is given its implementation after that, at most
\* once; within the registry no lambda is executed.  What is logged agrees
\* with the registries: the reserved identities are the reservations of the
\* deferred registry, the constructed lambdas are those of pending, and the
\* bound ones are the committed reservations.
C21_ReservedConstructedBound ==
    /\ \A id \in LoggedIds :
          IsPrefixOf(StepsOf(dynLog, id), <<"reserved", "constructed", "bound">>)
    /\ LoggedIds = Reservations
    /\ \A id \in Reservations :
          /\ PendingOf(id) # {} <=> Len(StepsOf(dynLog, id)) >= 2
          /\ deferred[id + 1].kind = "bound" <=> Len(StepsOf(dynLog, id)) = 3
          /\ \A d \in deferred[id + 1].data : ~d.executed

\* One lambda has been reserved, constructed and bound, and another
\* identity was reserved for a lambda that was never constructed.
C21_Witness ==
    \E id, other \in LoggedIds :
        /\ StepsOf(dynLog, id) = <<"reserved", "constructed", "bound">>
        /\ StepsOf(dynLog, other) = <<"reserved">>

\* The place in pending, counted from 1, of the first lambda the fetcher has
\* no implementation of the right type for.
FailsAt(fetcher) == CHOOSE j \in FirstUnbound(fetcher) : TRUE

\* C36: ensure_bound is not atomic.  After a pass that failed at the j-th
\* pending lambda, whose implementation is missing or of the wrong type, the
\* reservations of the j-1 lambdas before it are committed with their
\* implementations and stay so, the reservations of the j-th and of all
\* later lambdas are uncommitted, also where the fetcher holds an
\* implementation for them; and after any pass, failed or not, the dynamic
\* registry with its pending list is gone: nothing can be registered or
\* bound through it again.
C36_EnsureBoundNotAtomic ==
    \A r \in dynBound :
        /\ ~dynLive
        /\ ~r.res.ok <=> FirstUnbound(r.fetcher) # {}
        /\ ~r.res.ok =>
              /\ r.fetcher[dynPending[FailsAt(r.fetcher)].reserved]
                    \in {"none", "wrong type"}
              /\ \A i \in 1..(FailsAt(r.fetcher) - 1) :
                    /\ deferred[dynPending[i].reserved + 1].kind = "bound"
                    /\ \A d \in deferred[dynPending[i].reserved + 1].data :
                          d.attributes_lambda = {r.fetcher[dynPending[i].reserved]}
              /\ \A i \in FailsAt(r.fetcher)..Len(dynPending) :
                    deferred[dynPending[i].reserved + 1] = ReservedDeferredData

\* A pass failed at the second of two pending lambdas, whose value is of the
\* wrong type, with the first one committed.
C36_Witness ==
    \E r \in dynBound :
        /\ Len(dynPending) = 2
        /\ r.res = Err("Incorrect type")
        /\ FailsAt(r.fetcher) = 2
        /\ deferred[dynPending[1].reserved + 1].kind = "bound"
        /\ deferred[dynPending[2].reserved + 1].kind = "reserved"

\* The index, counted from 0, of the first of the outputs that is bound
\* already.
AlreadyBoundAt(outputs, arts) ==
    {i \in 0..(Len(outputs) - 1) :
        /\ arts[outputs[i + 1]] # {}
        /\ \A j \in 0..(i - 1) : arts[outputs[j + 1]] = {}}

\* C37: a register call fails exactly when one of its outputs is bound
\* already.  If the first such output has the index i, the call returns the
\* error and leaves pending as it was, while the deferred registry has
\* grown by the call's reservation and by the DynamicActions with the
\* indices 0..i, the one of the failing output included, the entries before
\* them untouched.  A reservation that has no lambda in pending is never
\* committed, whatever is registered or bound afterwards.
C37_FailedRegisterLeaksReservation ==
    [][/\ Len(dynCalls') > Len(dynCalls) =>
              LET call == dynCalls'[Len(dynCalls')]
                  at == AlreadyBoundAt(call.outputs, artifacts)
                  id == Len(deferred)
              IN  /\ ~call.res.ok <=> at # {}
                  /\ \A i \in at :
                        /\ call.res = Err("already bound")
                        /\ dynPending' = dynPending
                        /\ Len(deferred') = Len(deferred) + 2 + i
                        /\ SubSeq(deferred', 1, Len(deferred)) = deferred
                        /\ deferred'[id + 1] = ReservedDeferredData
                        /\ \A k \in 0..i :
                              deferred'[id + 2 + k] = DynamicAction(id, k)
                        /\ \A p \in DOMAIN dynPending' : dynPending'[p].reserved # id
       /\ \A id \in 0..(Len(deferred') - 1) :
              /\ deferred'[id + 1].kind # "action"
              /\ \A p \in DOMAIN dynPending' : dynPending'[p].reserved # id
              => deferred'[id + 1] = ReservedDeferredData
      ]_vars

\* A register call failed at its second output, and an ensure_bound pass
\* that succeeded afterwards left the call's reservation uncommitted.
C37_Witness ==
    /\ Len(dynCalls) = 2
    /\ dynCalls[1].res.ok
    /\ ~dynCalls[2].res.ok
    /\ Len(dynCalls[2].outputs) = 2
    /\ dynCalls[2].outputs[2] \in {dynCalls[1].outputs[i] : i \in DOMAIN dynCalls[1].outputs}
    /\ \E r \in dynBound : r.res.ok
    /\ \E id \in Reservations :
          /\ PendingOf(id) = {}
          /\ deferred[id + 1].kind = "reserved"
          /\ Cardinality(ActionsOf(id)) = 2

----------------------------------------------------------------------------
(* AnalysisContext and AnalysisActions *)

PromiseIds == 1..MaxPromises

\* AnalysisRegistry::take_promises: None when no promise is outstanding,
\* else the outstanding promises, which the registry no longer holds.
take_promises(registry) ==
    [promises |-> IF registry.promises = {} THEN {} ELSE {registry.promises},
     registry |-> [registry EXCEPT !.promises = {}]]

\* AnalysisRegistry::assert_no_promises
registry_assert_no_promises(registry) ==
    IF registry.promises = {} THEN Ok("unit") ELSE Err("promises remain")

\* A promise registered with the registry while the analysis runs.
register_promises(registry, created) == [registry EXCEPT !.promises = @ \cup created]

\* AnalysisActions::state: the registry in the cell; expect() panics when
\* the cell is empty.
state(cell) ==
    IF cell = {}
    THEN [panic |-> TRUE, registry |-> AnalysisRegistry({})]
    ELSE [panic |-> FALSE, registry |-> CHOOSE r \in cell : TRUE]

\* Mutation: the registry is handed out and the cell keeps it.
take_state_keeps(cell) ==
    [panic |-> cell = {}, cell |-> cell, registry |-> cell]

\* AnalysisContext::take_state: borrow_mut().take().expect(..)
take_state(cell) ==
    [panic |-> cell = {}, cell |-> {}, registry |-> cell]

\* Mutation: one batch is resolved and the loop is left.
run_promises_single_batch(res) ==
    IF res.ok
    THEN [pc |-> "short_paths", ret |-> {}]
    ELSE [pc |-> "idle", ret |-> {res}]

\* run_promises, after promises.run_promises(..).await?: an error returns
\* from run_promises, success goes round the loop again.
run_promises_after_batch(res) ==
    IF res.ok
    THEN [pc |-> "loop", ret |-> {}]
    ELSE [pc |-> "idle", ret |-> {res}]

Returned(op, res) == {[op |-> op, res |-> res]}

Panic(op) ==
    /\ ctxAborted' = {op}
    /\ UNCHANGED <<ctxState, ctxPc, ctxBatch, ctxLast, ctxTaken, ctxHist, ctxShort>>

\* run_promises is called.
RunPromises ==
    /\ ctxAborted = {}
    /\ ctxPc = "idle"
    /\ ctxPc' = "loop"
    /\ ctxHist' = [outstanding |-> state(ctxState).registry.promises, resolved |-> {}]
    /\ ctxShort' = {}
    /\ UNCHANGED <<ctxState, ctxBatch, ctxLast, ctxTaken, ctxAborted>>
    /\ UNCHANGED outsideCtx

\* run_promises: let promises = self.state().take_promises(), and the
\* branch on it.
RunPromisesTake ==
    /\ ctxAborted = {}
    /\ ctxPc = "loop"
    /\ LET st == state(ctxState)
           t == take_promises(st.registry)
       IN  IF st.panic
           THEN Panic("run_promises")
           ELSE /\ ctxState' = {t.registry}
                /\ ctxBatch' = UNION t.promises
                /\ ctxPc' = IF t.promises = {} THEN "short_paths" ELSE "resolving"
                /\ UNCHANGED <<ctxLast, ctxTaken, ctxAborted, ctxHist, ctxShort>>
    /\ UNCHANGED outsideCtx

\* run_promises: promises.run_promises(dice, eval, description).await?
\* Resolving the batch can register new promises through state(), and it
\* can fail.
RunPromisesResolve ==
    /\ ctxAborted = {}
    /\ ctxPc = "resolving"
    /\ \E res \in {Ok("unit"), Err("promise failed")} :
       \E created \in SUBSET (PromiseIds \ ctxBatch) :
          /\ ~res.ok => created = {}
          /\ LET st == state(ctxState)
                 after == run_promises_after_batch(res)
             IN  IF created # {} /\ st.panic
                 THEN Panic("state")
                 ELSE /\ ctxState' = IF created = {} THEN ctxState
                                     ELSE {register_promises(st.registry, created)}
                      /\ ctxBatch' = {}
                      /\ ctxPc' = after.pc
                      /\ ctxLast' = IF after.ret = {} THEN ctxLast
                                    ELSE Returned("run_promises", res)
                      /\ ctxHist' =
                            [outstanding |-> ctxHist.outstanding \cup created,
                             resolved |-> IF res.ok
                                          THEN (ctxHist.resolved \cup ctxBatch) \ created
                                          ELSE ctxHist.resolved]
                      /\ UNCHANGED <<ctxTaken, ctxAborted, ctxShort>>
    /\ UNCHANGED outsideCtx

\* The consumer artifacts an analysis can have, and what can be asserted of
\* one: nothing, or the short path "p".
ConsumerIds == {"c1", "c2"}
ShortPathAssertions == [ConsumerIds -> {{}, {"p"}}]

\* The lists state.consumer_analysis_artifacts() can return: each consumer
\* artifact with what fetching its promised artifact comes to.
ConsumerLists ==
    {consumers \in UNION {[1..n -> [id : ConsumerIds,
                                    fetched : {Ok("p"), Ok("q"), Err("fetch failed")}]] :
                             n \in 0..Cardinality(ConsumerIds)} :
        \A i, j \in DOMAIN consumers : consumers[i].id = consumers[j].id => i = j}

\* consumer_artifact.resolve(artifact, &short_path): the artifact must have
\* the short path that was asserted, if one was.
consumer_resolve(artifact, short_path) ==
    IF short_path = {} \/ short_path = {artifact}
    THEN Ok("unit")
    ELSE Err("short-path assertion violated")

RECURSIVE assert_short_paths_and_resolve_goes_on(_, _, _)
\* Mutation: a consumer artifact that fails is passed over.
assert_short_paths_and_resolve_goes_on(installed, short_path_assertions, consumers) ==
    IF consumers = <<>>
    THEN [res |-> Ok("unit"), resolved |-> <<>>]
    ELSE LET consumer_artifact == Head(consumers)
             artifact == consumer_artifact.fetched
             short_path == short_path_assertions[consumer_artifact.id]
             rest == assert_short_paths_and_resolve_goes_on(installed, short_path_assertions, Tail(consumers))
         IN  IF ~installed \/ ~artifact.ok \/ ~consumer_resolve(artifact.val, short_path).ok
             THEN rest
             ELSE [res |-> rest.res,
                   resolved |-> <<[id |-> consumer_artifact.id, short_path |-> short_path]>>
                                \o rest.resolved]

RECURSIVE assert_short_paths_and_resolve(_, _, _)
\* AnalysisActions::assert_short_paths_and_resolve, from the loop over the
\* consumer artifacts on.  installed tells whether GET_PROMISED_ARTIFACT is
\* set.  resolved is the list of the artifacts resolved, each with the
\* short path given to resolve.
assert_short_paths_and_resolve(installed, short_path_assertions, consumers) ==
    IF consumers = <<>>
    THEN [res |-> Ok("unit"), resolved |-> <<>>]
    ELSE LET consumer_artifact == Head(consumers)
             artifact == consumer_artifact.fetched
             short_path == short_path_assertions[consumer_artifact.id]
         IN  IF ~installed
             THEN [res |-> Err("GET_PROMISED_ARTIFACT is not set"), resolved |-> <<>>]
             ELSE IF ~artifact.ok
             THEN [res |-> artifact, resolved |-> <<>>]
             ELSE IF ~consumer_resolve(artifact.val, short_path).ok
             THEN [res |-> consumer_resolve(artifact.val, short_path), resolved |-> <<>>]
             ELSE LET rest == assert_short_paths_and_resolve(installed, short_path_assertions, Tail(consumers))
                  IN  [res |-> rest.res,
                       resolved |-> <<[id |-> consumer_artifact.id, short_path |-> short_path]>>
                                    \o rest.resolved]

\* run_promises: self.assert_short_paths_and_resolve(dice).await?; Ok(())
\* The assertions and the consumer artifacts are what the registry holds
\* at this point.
RunPromisesShortPaths ==
    /\ ctxAborted = {}
    /\ ctxPc = "short_paths"
    /\ IF state(ctxState).panic
       THEN Panic("assert_short_paths_and_resolve")
       ELSE \E installed \in BOOLEAN, consumers \in ConsumerLists,
               short_path_assertions \in ShortPathAssertions :
               \E r \in {assert_short_paths_and_resolve(installed, short_path_assertions, consumers)} :
                  /\ ctxPc' = "idle"
                  /\ ctxLast' = Returned("run_promises", r.res)
                  /\ ctxShort' = {[promises |-> state(ctxState).registry.promises,
                                   installed |-> installed,
                                   res |-> r.res,
                                   short_path_assertions |-> short_path_assertions,
                                   consumers |-> consumers,
                                   resolved |-> r.resolved]}
                  /\ UNCHANGED <<ctxState, ctxBatch, ctxTaken, ctxAborted, ctxHist>>
    /\ UNCHANGED outsideCtx

\* The rule's implementation registers a promise through ctx.actions.
AnonTarget ==
    /\ ctxAborted = {}
    /\ ctxPc = "idle"
    /\ LET st == state(ctxState)
       IN  IF st.panic
           THEN Panic("state")
           ELSE \E p \in PromiseIds \ st.registry.promises :
                   /\ ctxState' = {register_promises(st.registry, {p})}
                   /\ ctxLast' = Returned("state", Ok("unit"))
                   /\ UNCHANGED <<ctxPc, ctxBatch, ctxTaken, ctxAborted, ctxHist, ctxShort>>
    /\ UNCHANGED outsideCtx

\* AnalysisContext::assert_no_promises
AssertNoPromises ==
    /\ ctxAborted = {}
    /\ LET st == state(ctxState)
       IN  IF st.panic
           THEN Panic("assert_no_promises")
           ELSE /\ ctxLast' = Returned("assert_no_promises",
                                       registry_assert_no_promises(st.registry))
                /\ UNCHANGED <<ctxState, ctxPc, ctxBatch, ctxTaken, ctxAborted, ctxHist,
                               ctxShort>>
    /\ UNCHANGED outsideCtx

\* AnalysisContext::take_state
TakeState ==
    /\ ctxAborted = {}
    /\ LET t == take_state(ctxState)
       IN  IF t.panic
           THEN Panic("take_state")
           ELSE /\ ctxState' = t.cell
                /\ ctxTaken' = Append(ctxTaken, CHOOSE r \in t.registry : TRUE)
                /\ ctxLast' = Returned("take_state", Ok("unit"))
                /\ UNCHANGED <<ctxPc, ctxBatch, ctxAborted, ctxHist, ctxShort>>
    /\ UNCHANGED outsideCtx

\* AnalysisContext::new: the registry given goes into the cell.
CtxInit ==
    /\ GraphIdle
    /\ ReadDirIdle
    /\ ConcIdle
    /\ DynIdle
    /\ CfgIdle
    /\ CleanIdle
    /\ AuditIdle
    /\ KillIdle
    /\ ctxState = {AnalysisRegistry({})}
    /\ ctxPc = "idle"
    /\ ctxBatch = {}
    /\ ctxLast = {}
    /\ ctxTaken = <<>>
    /\ ctxAborted = {}
    /\ ctxHist = [outstanding |-> {}, resolved |-> {}]
    /\ ctxShort = {}

CtxNext ==
    \/ RunPromises
    \/ RunPromisesTake
    \/ RunPromisesResolve
    \/ RunPromisesShortPaths
    \/ AnonTarget
    \/ AssertNoPromises
    \/ TakeState

SpecCtx == CtxInit /\ [][CtxNext]_vars

\* A run_promises call that was started is polled until it returns.
SpecCtxFair ==
    /\ SpecCtx
    /\ WF_vars(RunPromisesTake)
    /\ WF_vars(RunPromisesResolve)
    /\ WF_vars(RunPromisesShortPaths)

----------------------------------------------------------------------------
(* Properties of the analysis context *)

RunPromisesOk == Returned("run_promises", Ok("unit"))

\* C22: when the latest operation that returned is a run_promises that
\* returned Ok, the registry is in the cell and holds no promise, every
\* promise that was outstanding during the call (those created while an
\* earlier batch was resolved included) was resolved by it, and an
\* assert_no_promises that follows returns Ok; the loop goes on to the
\* short-path assertions only from a take_promises that returned None.
C22_RunPromisesDrainsAll ==
    [][/\ ctxLast' = RunPromisesOk =>
             /\ ctxState' # {}
             /\ \A r \in ctxState' :
                   /\ r.promises = {}
                   /\ registry_assert_no_promises(r) = Ok("unit")
             /\ ctxHist'.outstanding \subseteq ctxHist'.resolved
       /\ (ctxLast = RunPromisesOk /\ ctxLast' # ctxLast /\ ctxAborted' = {}
             /\ \E l \in ctxLast' : l.op = "assert_no_promises") =>
             ctxLast' = Returned("assert_no_promises", Ok("unit"))
       /\ (ctxPc # "short_paths" /\ ctxPc' = "short_paths") =>
             /\ ctxPc = "loop"
             /\ \A r \in ctxState : r.promises = {}
      ]_vars

\* run_promises returned Ok after it resolved a promise that was created
\* while it resolved an earlier batch, and assert_no_promises followed.
C22_Witness ==
    /\ ctxLast = Returned("assert_no_promises", Ok("unit"))
    /\ ctxHist.outstanding = PromiseIds
    /\ ctxHist.resolved = PromiseIds
    /\ ctxPc = "idle"
    /\ ctxTaken = <<>>

\* C23 (as claimed): a run_promises call that was started comes to an end:
\* it returns or it panics.
C23_RunPromisesTerminates ==
    (ctxPc # "idle") ~> (ctxPc = "idle" \/ ctxAborted # {})

\* C24: take_state returns a registry at most once; what it returns is the
\* registry given at construction, as the cell held it, and the cell is
\* empty from then on.  With the cell empty no operation returns a registry
\* or returns Ok: take_state, assert_no_promises and state() panic, and so
\* does run_promises at its first statement; the one step that does not
\* panic is a run_promises that was already waiting for a batch when the
\* registry was taken, whose batch ends without registering a promise.
C24_HandedOffOnce ==
    [][/\ Len(ctxTaken') <= 1
       /\ ctxTaken' # ctxTaken =>
             /\ ctxState = {ctxTaken'[1]}
             /\ ctxTaken'[1].name = AnalysisRegistry({}).name
             /\ ctxState' = {}
       /\ ctxState = {} =>
             /\ ctxState' = {}
             /\ ctxTaken' = ctxTaken
             /\ ctxLast' # ctxLast =>
                   /\ ctxPc = "resolving"
                   /\ ctxLast' = Returned("run_promises", Err("promise failed"))
             /\ (ctxVars' # ctxVars /\ ctxAborted' = {}) =>
                   \/ ctxPc = "resolving"
                   \/ ctxPc = "idle" /\ ctxPc' = "loop"
             /\ (ctxPc = "loop" /\ ctxVars' # ctxVars) => ctxAborted' # {}
      ]_vars

\* After the hand-off a second take_state panicked.
C24_Witness ==
    /\ Len(ctxTaken) = 1
    /\ ctxTaken[1].promises # {}
    /\ ctxAborted = {"take_state"}

\* What the latest assert_short_paths_and_resolve met and did, and the calls
\* of resolve it would make if none failed.
Short == CHOOSE sh \in ctxShort : TRUE
ResolveCalls(sh) ==
    [i \in DOMAIN sh.consumers |->
        [id |-> sh.consumers[i].id,
         short_path |-> sh.short_path_assertions[sh.consumers[i].id]]]
ResolveFails(sh, i) ==
    \/ ~sh.installed
    \/ ~sh.consumers[i].fetched.ok
    \/ ~consumer_resolve(sh.consumers[i].fetched.val,
                         sh.short_path_assertions[sh.consumers[i].id]).ok

\* C35: a run_promises call comes to the short-path assertions only with no
\* promise left in the registry and every promise it met resolved; a call
\* that returned the error of a batch has resolved no consumer artifact;
\* otherwise the consumer artifacts are resolved in the order of the list,
\* each once and with the short path asserted of it (or none), all of them
\* if the call returns Ok, and up to the first one that fails if it returns
\* an error, which is the error of that one.
C35_ShortPathsAfterPromises ==
    /\ ctxLast = Returned("run_promises", Err("promise failed")) => ctxShort = {}
    /\ ctxShort # {} =>
          /\ Short.promises = {}
          /\ ctxHist.outstanding \subseteq ctxHist.resolved
          /\ IsPrefixOf(Short.resolved, ResolveCalls(Short))
          /\ \A i, j \in DOMAIN Short.resolved :
                Short.resolved[i].id = Short.resolved[j].id => i = j
          /\ \A i \in DOMAIN Short.resolved : ~ResolveFails(Short, i)
          /\ Short.res.ok <=> Short.resolved = ResolveCalls(Short)
          /\ ~Short.res.ok =>
                /\ Len(Short.resolved) < Len(Short.consumers)
                /\ ResolveFails(Short, Len(Short.resolved) + 1)
    /\ ctxPc = "idle" /\ ctxLast # {}
          /\ (\A l \in ctxLast : l.op = "run_promises" /\ l.res # Err("promise failed")) =>
          ctxShort # {} /\ ctxLast = Returned("run_promises", Short.res)

\* After a promise was resolved, the first of two consumer artifacts was
\* resolved with the short path asserted of it and the second was not,
\* its artifact having another short path than the one asserted.
C35_Witness ==
    /\ ctxHist.resolved # {}
    /\ ctxShort # {}
    /\ Len(Short.consumers) = 2
    /\ Short.resolved = <<[id |-> Short.consumers[1].id, short_path |-> {"p"}]>>
    /\ Short.consumers[2].fetched = Ok("q")
    /\ ctxLast = Returned("run_promises", Err("short-path assertion violated"))

----------------------------------------------------------------------------
(* eval_cfg_constructor *)

\* What the root PACKAGE file can come to (an evaluation error, no
\* constructor, a constructor), with whether the constructor fails when it
\* is called.
CfgEnvs ==
    [package_file : {Err("PACKAGE failed"), Ok({}), Ok({"constructor"})},
     eval_fails : BOOLEAN]

\* What looking the modifiers up under the constructor's key can come to,
\* for the package values and for the target's metadata: an error, nothing,
\* a value.
PackageLookups == {Err("package value is not JSON"), Ok({}), Ok({"package modifiers"})}
TargetLookups == {Err("bad metadata"), Ok({}), Ok({"target modifiers"})}
CliModifiers == {<<>>, <<"cli modifier">>}
RuleType == "rule"

InvocationKeys ==
    {CfgConstructorInvocationKey(pm, tm, "cfg", cli, RuleType) :
        pm \in {{}, {"package modifiers"}},
        tm \in {{}, {"target modifiers"}},
        cli \in CliModifiers}
CfgKeys == {GetCfgConstructorKey} \cup InvocationKeys

\* Mutation: the invocation key is computed whatever the modifiers are.
eval_cfg_constructor_no_fast_path(c, v, f, target, super_package, cfg, cli_modifiers, rule_type) ==
    LET key == CfgConstructorInvocationKey(super_package.val, target.val, cfg,
                                           cli_modifiers, rule_type)
    IN  IF ~c.val.ok
        THEN [st |-> c.st, res |-> c.val, key |-> {}]
        ELSE IF c.val.val = {}
        THEN [st |-> c.st, res |-> Ok(cfg), key |-> {}]
        ELSE IF ~super_package.ok
        THEN [st |-> c.st, res |-> super_package, key |-> {}]
        ELSE IF ~target.ok
        THEN [st |-> c.st, res |-> target, key |-> {}]
        ELSE LET r == Eval(key, c.st, v, f)
             IN  [st |-> r.st, res |-> r.val, key |-> {key}]

\* Mutation: the invocation key is computed when the lookup returned no
\* constructor as well.
eval_cfg_constructor_ignores_absent(c, v, f, target, super_package, cfg, cli_modifiers, rule_type) ==
    LET key == CfgConstructorInvocationKey(super_package.val, target.val, cfg,
                                           cli_modifiers, rule_type)
    IN  IF ~c.val.ok
        THEN [st |-> c.st, res |-> c.val, key |-> {}]
        ELSE IF ~super_package.ok
        THEN [st |-> c.st, res |-> super_package, key |-> {}]
        ELSE IF ~target.ok
        THEN [st |-> c.st, res |-> target, key |-> {}]
        ELSE IF super_package.val = {} /\ target.val = {} /\ cli_modifiers = <<>>
        THEN [st |-> c.st, res |-> Ok(cfg), key |-> {}]
        ELSE LET r == Eval(key, c.st, v, f)
             IN  [st |-> r.st, res |-> r.val, key |-> {key}]

\* eval_cfg_constructor from the result c of get_cfg_constructor on: the
\* `?` on c, the early return without a constructor, the two lookups of
\* the modifiers with their `?`, the early return without modifiers, and
\* ctx.compute of the invocation key.  key is the invocation key handed to
\* ctx.compute, None if there was none.
eval_cfg_constructor_after_lookup(c, v, f, target, super_package, cfg, cli_modifiers, rule_type) ==
    LET key == CfgConstructorInvocationKey(super_package.val, target.val, cfg,
                                           cli_modifiers, rule_type)
    IN  IF ~c.val.ok
        THEN [st |-> c.st, res |-> c.val, key |-> {}]
        ELSE IF c.val.val = {}
        THEN [st |-> c.st, res |-> Ok(cfg), key |-> {}]
        ELSE IF ~super_package.ok
        THEN [st |-> c.st, res |-> super_package, key |-> {}]
        ELSE IF ~target.ok
        THEN [st |-> c.st, res |-> target, key |-> {}]
        ELSE IF super_package.val = {} /\ target.val = {} /\ cli_modifiers = <<>>
        THEN [st |-> c.st, res |-> Ok(cfg), key |-> {}]
        ELSE LET r == Eval(key, c.st, v, f)
             IN  [st |-> r.st, res |-> r.val, key |-> {key}]

\* CfgConstructorCalculationInstance::eval_cfg_constructor.  super_package
\* and target stand for what get_package_value_json(modifier_key) and
\* target.metadata() with get(modifier_key) come to.
eval_cfg_constructor(st, v, f, target, super_package, cfg, cli_modifiers, rule_type) ==
    eval_cfg_constructor_after_lookup(get_cfg_constructor(st, v, f), v, f, target, super_package, cfg, cli_modifiers, rule_type)

\* eval_cfg_constructor called in the open transaction.
EvalCfgConstructor ==
    /\ cfgCalls < MaxCfgCalls
    /\ \E f \in CfgEnvs, target \in TargetLookups, super_package \in PackageLookups,
          cli_modifiers \in CliModifiers :
          \E r \in {eval_cfg_constructor([node |-> node, lastRun |-> lastRun], tx, f,
                                         target, super_package, "cfg",
                                         cli_modifiers, RuleType)} :
              /\ node' = r.st.node
              /\ lastRun' = r.st.lastRun
              /\ cfgLast' = {[f |-> f, target |-> target,
                              super_package |-> super_package, cfg |-> "cfg",
                              cli_modifiers |-> cli_modifiers,
                              res |-> r.res, key |-> r.key]}
    /\ cfgCalls' = cfgCalls + 1
    /\ UNCHANGED <<changes, version, dirtied, tx>>
    /\ UNCHANGED outsideCfg

\* The root PACKAGE file changed: the update transaction is told that the
\* constructor has to be looked up again.
PackageFileChanged ==
    /\ version < MaxVersion
    /\ changes = {}
    /\ changes' = {GetCfgConstructorKey}
    /\ UNCHANGED engineVars
    /\ UNCHANGED trackerVars
    /\ UNCHANGED outsideGraph

CfgInit ==
    /\ TrackerInit
    /\ changes = {}
    /\ version = 0
    /\ dirtied = [w \in 1..MaxVersion |-> {}]
    /\ tx = 0
    /\ node = [k \in CfgKeys |-> Absent]
    /\ lastRun = [k \in CfgKeys |-> -1]
    /\ OutsideGraphIdle

CfgNext ==
    \/ EvalCfgConstructor
    \/ PackageFileChanged
    \/ Commit
    \/ NewTx

SpecCfg == CfgInit /\ [][CfgNext]_vars

----------------------------------------------------------------------------
(* Properties of eval_cfg_constructor, checked under SpecCfg *)

\* The constructor as the call saw it: the value of GetCfgConstructorKey in
\* the call's transaction.
Installed(n) == n[GetCfgConstructorKey].value = Ok({"constructor"})
Present(lookup) == lookup.ok /\ lookup.val # {}
SomeModifier(l) ==
    Present(l.super_package) \/ Present(l.target) \/ l.cli_modifiers # <<>>
Untouched(n, m) == \A k \in InvocationKeys : n[k] = m[k]

\* C25 (as claimed): the call computes an invocation key if and only if a
\* constructor is installed and one of the three modifier sources is not
\* empty; in every other case it returns the configuration it was given and
\* no invocation key enters the graph.
C25_KeyIffConstructorAndModifiers ==
    [][cfgCalls' # cfgCalls =>
          \A l \in cfgLast' :
              /\ l.key # {} <=> (Installed(node') /\ SomeModifier(l))
              /\ l.key = {} => (l.res = Ok(l.cfg) /\ Untouched(node, node'))
      ]_vars

\* C25: the call computes an invocation key if and only if the constructor
\* lookup returned a constructor, both modifier lookups succeeded, and the
\* package modifiers are present, or the target modifiers are present, or
\* the CLI modifiers are not empty; the key then carries the call's inputs,
\* is in the graph, and its value is what the call returns.  In every other
\* case no invocation key is computed or enters the graph, and the call
\* returns the error of the first lookup that failed (constructor, package
\* values, target metadata, in this order) or, if none failed, the
\* configuration it was given.
C25_KeyIffLookupsOkAndModifiers ==
    [][cfgCalls' # cfgCalls =>
          \A l \in cfgLast' :
              LET ctor == node'[GetCfgConstructorKey].value
                  lookups == l.super_package.ok /\ l.target.ok
              IN  /\ l.key # {} <=>
                        (Installed(node') /\ lookups /\ SomeModifier(l))
                  /\ l.key # {} =>
                        /\ l.key = {CfgConstructorInvocationKey(
                                        l.super_package.val, l.target.val, l.cfg,
                                        l.cli_modifiers, RuleType)}
                        /\ \A k \in l.key : node'[k].has /\ node'[k].value = l.res
                  /\ l.key = {} =>
                        /\ Untouched(node, node')
                        /\ l.res = IF ~ctor.ok THEN ctor
                                   ELSE IF ctor.val = {} THEN Ok(l.cfg)
                                   ELSE IF ~l.super_package.ok THEN l.super_package
                                   ELSE IF ~l.target.ok THEN l.target
                                   ELSE Ok(l.cfg)
      ]_vars

\* With a constructor installed, both calls were made: one with no modifier
\* anywhere, which returned the configuration and left the graph without an
\* invocation key, after one with a CLI modifier only, which computed its
\* key.
C25_Witness ==
    /\ cfgCalls = 2
    /\ Installed(node)
    /\ Cardinality({k \in InvocationKeys : node[k].has}) = 1
    /\ \E l \in cfgLast :
          /\ l.key = {}
          /\ l.res = Ok(l.cfg)
          /\ l.super_package = Ok({}) /\ l.target = Ok({}) /\ l.cli_modifiers = <<>>

\* C26 (as claimed): the graph stores no failure of an invocation key, so a
\* call that computes an invocation key while the constructor does not fail
\* returns a configuration, not a failure stored earlier.
C26_FailuresNeverCached ==
    /\ \A k \in InvocationKeys : node[k].has => node[k].value.ok
    /\ \A l \in cfgLast : (l.key # {} /\ ~l.f.eval_fails) => l.res.ok

MissingConstructor == "Internal error: Global cfg constructor instance should exist"
IsMissingConstructor(val) == ~val.ok /\ val.val = MissingConstructor

\* C38: in every step in which the compute function of an invocation key
\* runs, it runs in the open transaction, and the constructor it looks up is
\* the one GetCfgConstructorKey holds for the version that transaction is
\* pinned at, which is a constructor: the call that demanded the key had
\* looked it up at the same version.  So no call returns the error "Global
\* cfg constructor instance should exist" and no invocation key ever holds
\* it, also in a version in which the root PACKAGE file no longer installs a
\* constructor: a call made there returns before it demands a key, and the
\* keys computed earlier stay as they are.
C38_ComputeSeesConstructor ==
    [][/\ \A k \in InvocationKeys :
              lastRun'[k] # lastRun[k] =>
                  /\ lastRun'[k] = tx
                  /\ node'[GetCfgConstructorKey].has
                  /\ node'[GetCfgConstructorKey].verifiedAt = tx
                  /\ Installed(node')
                  /\ \A l \in cfgLast' : l.key = {k}
       /\ \A k \in InvocationKeys : ~IsMissingConstructor(node'[k].value)
       /\ \A l \in cfgLast' : ~IsMissingConstructor(l.res)
       /\ cfgCalls' # cfgCalls /\ node'[GetCfgConstructorKey].value = Ok({}) =>
              /\ Untouched(node, node')
              /\ \A l \in cfgLast' : l.key = {} /\ l.res = Ok(l.cfg)
      ]_vars

\* An invocation key was computed in version 0 with a constructor installed;
\* in a later version the constructor is gone from the root PACKAGE file, and
\* a call with modifiers returned the configuration it was given, the key
\* computed earlier still in the graph.
C38_Witness ==
    /\ tx >= 1
    /\ node[GetCfgConstructorKey].verifiedAt = tx
    /\ node[GetCfgConstructorKey].value = Ok({})
    /\ \E k \in InvocationKeys : node[k].has /\ lastRun[k] = 0
    /\ \E l \in cfgLast :
          /\ SomeModifier(l) /\ l.super_package.ok /\ l.target.ok
          /\ l.key = {}
          /\ l.res = Ok(l.cfg)

----------------------------------------------------------------------------
(* buck2 clean *)

\* The deadline of the lifecycle lock, in seconds.
LockTimeoutSecs == 10

\* What buck-out holds when the command is invoked.
BuckOutStates ==
    {NoBuckOut,
     [exists |-> TRUE, files |-> {}, dirs |-> {<<"d">>}],
     [exists |-> TRUE, files |-> {<<"a">>}, dirs |-> {}],
     [exists |-> TRUE, files |-> {<<"a">>, <<"d", "b">>}, dirs |-> {<<"d">>}],
     [exists |-> TRUE, files |-> BuckOutFiles, dirs |-> {<<"d">>}],
     [exists |-> TRUE, files |-> {<<"d", "b">>}, dirs |-> BuckOutDirs]}

\* path.display().to_string() of an entry of buck-out, and the daemon
\* directory's path.
Display(path) ==
    IF Len(path) = 1 THEN "buck-out/" \o path[1] ELSE "buck-out/" \o path[1] \o "/" \o path[2]
DaemonDirPath == "daemon-dir"

TopLevel(buck_out) == {path \in buck_out.files \cup buck_out.dirs : Len(path) = 1}

\* The orders in which a directory's entries can be read.
OrdersOf(S) ==
    {order \in [1..Cardinality(S) -> S] :
        \A i, j \in 1..Cardinality(S) : order[i] = order[j] => i = j}

\* collect_paths_to_clean followed by map(display): the top-level entries
\* of buck-out in the order read_dir gives them.
collect_paths_to_clean(buck_out, order) == [i \in DOMAIN order |-> Display(order[i])]

\* Mutation: buck-out is deleted whether or not the lock was passed.
deletes_buck_out_always(lifecycle_lock) == TRUE

\* clean: lifecycle_lock.is_some(); None means dry run.
deletes_buck_out(lifecycle_lock) == lifecycle_lock # {}

\* Mutation: the command goes on to clean after a kill that failed.
exec_after_kill_goes_on(res) == "clean"

\* exec: kill_command_impl(&lifecycle_lock, ..).await?
exec_after_kill(res) == IF res.ok THEN "clean" ELSE "done"

\* Mutation: a failure that comes later replaces the one in the slot.
record_error_overwrites(slot, e) == {e}

\* clean_buck_out, in a task: if error.is_none() { *error = Some(e) }
record_error(slot, e) == IF slot = {} THEN {e} ELSE slot

\* Mutation: the walk is tried again as long as it fails, up to three times.
retry_again_twice(attempts) ==
    Len(attempts) <= 2 /\ ~attempts[Len(attempts)].ok

\* clean_buck_out_with_retry: clean_buck_out is called a second time when
\* the first call returned an error, and not again after that.
retry_again(attempts) == Len(attempts) = 1 /\ ~attempts[1].ok

\* The lock passed to clean: None on a dry run.
LifecycleLock == IF clDryRun THEN {} ELSE {"lifecycle_lock"}

\* The command returns: the lock, if the command holds it, is dropped.
Finish(res) ==
    /\ clResult' = {res}
    /\ clPc' = "done"
    /\ clLock' = IF clLock.holder = "clean" THEN FreeLock ELSE clLock

\* exec: the paths, the console, and the branch on dry_run.
Exec ==
    /\ clPc = "exec"
    /\ clPc' = IF clDryRun THEN "clean" ELSE "lock"
    /\ UNCHANGED <<clDryRun, clBuckOut, clDaemonDir, clDaemon, clLock, clPaths,
                   clStderr, clResult, clLog, clAttempts, clTask, clError,
                   clRecorded, clRuns>>
    /\ UNCHANGED <<clDirPaths, clRemoved>>
    /\ UNCHANGED outsideClean

\* exec: BuckdLifecycleLock::lock_with_timeout(daemon_dir, 10 seconds).  The
\* lock is taken if it is free or comes free before the deadline.
LockWithTimeout ==
    /\ clPc = "lock"
    /\ IF clLock.holder = "none" \/ clLock.release_in < LockTimeoutSecs
       THEN /\ clLock' = [holder |-> "clean", release_in |-> 0]
            /\ clLog' = Append(clLog, "lock")
            /\ clPc' = "kill"
            /\ UNCHANGED clResult
       ELSE /\ Finish(Err("Error locking buckd lifecycle.lock"))
            /\ UNCHANGED clLog
    /\ UNCHANGED <<clDryRun, clBuckOut, clDaemonDir, clDaemon, clPaths, clStderr,
                   clAttempts, clTask, clError, clRecorded, clRuns>>
    /\ UNCHANGED <<clDirPaths, clRemoved>>
    /\ UNCHANGED outsideClean

\* exec: kill_command_impl(&lifecycle_lock, "`buck2 clean` was invoked")
KillCommand ==
    /\ clPc = "kill"
    /\ \E res \in {Ok("unit"), Err("kill failed")} :
          /\ clDaemon' = IF res.ok THEN FALSE ELSE clDaemon
          /\ clLog' = IF res.ok THEN Append(clLog, "kill") ELSE clLog
          /\ IF exec_after_kill(res) = "done"
             THEN Finish(res)
             ELSE /\ clPc' = exec_after_kill(res)
                  /\ UNCHANGED <<clResult, clLock>>
    /\ UNCHANGED <<clDryRun, clBuckOut, clDaemonDir, clPaths, clStderr,
                   clAttempts, clTask, clError, clRecorded, clRuns>>
    /\ UNCHANGED <<clDirPaths, clRemoved>>
    /\ UNCHANGED outsideClean

\* clean: try_clean_eden_buck_out (which returns None in a build without
\* fbcode_build), buck_out_dir.exists() and collect_paths_to_clean.
CollectPaths ==
    /\ clPc = "clean"
    /\ IF ~clBuckOut.exists
       THEN /\ clPc' = "daemon_dir"
            /\ UNCHANGED <<clPaths, clResult, clLock>>
       ELSE \E res \in {Ok("unit"), Err("read_dir failed")} :
            \E order \in OrdersOf(TopLevel(clBuckOut)) :
               IF ~res.ok
               THEN /\ Finish(res)
                    /\ UNCHANGED clPaths
               ELSE /\ clPaths' = collect_paths_to_clean(clBuckOut, order)
                    /\ clPc' = IF deletes_buck_out(LifecycleLock)
                               THEN "walk" ELSE "daemon_dir"
                    /\ UNCHANGED <<clResult, clLock>>
    /\ UNCHANGED <<clDryRun, clBuckOut, clDaemonDir, clDaemon, clStderr, clLog,
                   clAttempts, clTask, clError, clRecorded, clRuns>>
    /\ UNCHANGED <<clDirPaths, clRemoved>>
    /\ UNCHANGED outsideClean

\* The orders in which WalkDir can yield the root and the directories
\* below it: a directory before what is in it, and all that is in it before
\* what follows it.
WalkOrders(dirs) ==
    {order \in OrdersOf(dirs \cup {<<>>}) :
        \A i, j, k \in DOMAIN order :
            /\ IsPrefixOf(order[j], order[i]) => j <= i
            /\ i < j /\ j < k /\ IsPrefixOf(order[i], order[k]) => IsPrefixOf(order[i], order[j])}

Reverse(seq) == [i \in DOMAIN seq |-> seq[Len(seq) + 1 - i]]

\* Mutation: the directories are removed in the order of the walk.
dirs_to_remove_parents_first(reverse_dir_paths) == Tail(reverse_dir_paths)

\* reverse_dir_paths.iter().skip(1).rev()
dirs_to_remove(reverse_dir_paths) == Reverse(Tail(reverse_dir_paths))

\* The entries of buck-out below a directory.
EntriesBelow(buck_out, path) ==
    {entry \in buck_out.files \cup buck_out.dirs : entry # path /\ IsPrefixOf(path, entry)}

\* fs_util::remove_dir: it fails on a directory that is not empty, and can
\* fail for a reason of its own.
remove_dir(buck_out, path, io_fails) ==
    IF io_fails
    THEN [buck_out |-> buck_out, res |-> Err("remove_dir failed")]
    ELSE IF EntriesBelow(buck_out, path) # {}
    THEN [buck_out |-> buck_out, res |-> Err("directory not empty")]
    ELSE IF path = <<>>
    THEN [buck_out |-> NoBuckOut, res |-> Ok("unit")]
    ELSE [buck_out |-> [buck_out EXCEPT !.dirs = @ \ {path}], res |-> Ok("unit")]

RECURSIVE remove_dirs(_, _, _)
\* for path in ... { fs_util::remove_dir(path)?; }  The call of its own
\* that fails is the one at place fail_at of paths (none if 0).
remove_dirs(buck_out, paths, fail_at) ==
    IF paths = <<>>
    THEN [buck_out |-> buck_out, res |-> Ok("unit"), removed |-> <<>>]
    ELSE LET r == remove_dir(buck_out, Head(paths), fail_at = 1)
         IN  IF ~r.res.ok
             THEN [buck_out |-> r.buck_out, res |-> r.res, removed |-> <<>>]
             ELSE LET rest == remove_dirs(r.buck_out, Tail(paths), fail_at - 1)
                  IN  [buck_out |-> rest.buck_out, res |-> rest.res,
                       removed |-> <<[path |-> Head(paths),
                                      below |-> EntriesBelow(buck_out, Head(paths))]>>
                                   \o rest.removed]

\* clean_buck_out: the walk.  Every file found is handed to the thread pool
\* as a task of its own; the error slot is new and empty.
Walk ==
    /\ clPc = "walk"
    /\ clTask' = [file \in BuckOutFiles |->
                     IF file \in clBuckOut.files THEN "queued" ELSE "none"]
    /\ clError' = {}
    /\ clRecorded' = <<>>
    /\ clRuns' = [file \in BuckOutFiles |-> 0]
    /\ clDirPaths' \in WalkOrders(clBuckOut.dirs)
    /\ UNCHANGED clRemoved
    /\ clLog' = IF clAttempts = <<>> THEN Append(clLog, "delete buck-out") ELSE clLog
    /\ clPc' = "pool"
    /\ UNCHANGED <<clDryRun, clBuckOut, clDaemonDir, clDaemon, clLock, clPaths,
                   clStderr, clResult, clAttempts>>
    /\ UNCHANGED outsideClean

\* The tasks that hold a thread of the pool.
Busy == {file \in BuckOutFiles : clTask[file] = "failed"}

\* A thread of the pool takes a task and calls fs_util::remove_file.
WorkerRemove ==
    /\ clPc = "pool"
    /\ Cardinality(Busy) < NumCpus
    /\ \E file \in BuckOutFiles :
          /\ clTask[file] = "queued"
          /\ clRuns' = [clRuns EXCEPT ![file] = @ + 1]
          /\ \E removed \in BOOLEAN :
                /\ clTask' = [clTask EXCEPT ![file] = IF removed THEN "done" ELSE "failed"]
                /\ clBuckOut' = IF removed
                                THEN [clBuckOut EXCEPT !.files = @ \ {file}]
                                ELSE clBuckOut
    /\ UNCHANGED <<clDryRun, clDaemonDir, clDaemon, clLock, clPc, clPaths, clStderr,
                   clResult, clLog, clAttempts, clError, clRecorded>>
    /\ UNCHANGED <<clDirPaths, clRemoved>>
    /\ UNCHANGED outsideClean

\* A task whose remove_file failed takes the mutex and looks at the slot.
WorkerRecord ==
    /\ clPc = "pool"
    /\ \E file \in BuckOutFiles :
          /\ clTask[file] = "failed"
          /\ clError' = record_error(clError, Err(Display(file)))
          /\ clRecorded' = Append(clRecorded, file)
          /\ clTask' = [clTask EXCEPT ![file] = "done"]
    /\ UNCHANGED <<clDryRun, clBuckOut, clDaemonDir, clDaemon, clLock, clPc, clPaths,
                   clStderr, clResult, clLog, clAttempts, clRuns>>
    /\ UNCHANGED <<clDirPaths, clRemoved>>
    /\ UNCHANGED outsideClean

\* clean_buck_out from thread_pool.join() on: the slot's error if there is
\* one, else the directories below the root are removed; then
\* clean_buck_out_with_retry's match on the result, and clean's `?` on what
\* it returns.
Join ==
    /\ clPc = "pool"
    /\ \A file \in BuckOutFiles : clTask[file] \in {"none", "done"}
    /\ \E fail_at \in 0..Len(dirs_to_remove(clDirPaths)) :
          LET r == IF clError # {}
                   THEN [buck_out |-> clBuckOut, res |-> CHOOSE e \in clError : TRUE,
                         removed |-> <<>>]
                   ELSE remove_dirs(clBuckOut, dirs_to_remove(clDirPaths), fail_at)
              result == r.res
              attempts == Append(clAttempts, result)
          IN  /\ clAttempts' = attempts
              /\ clBuckOut' = r.buck_out
              /\ clRemoved' = clRemoved \o r.removed
              /\ IF retry_again(attempts)
                 THEN /\ clPc' = "walk"
                      /\ UNCHANGED <<clResult, clLock>>
                 ELSE IF result.ok
                 THEN /\ clPc' = "daemon_dir"
                      /\ UNCHANGED <<clResult, clLock>>
                 ELSE Finish(result)
    /\ UNCHANGED <<clDryRun, clDaemonDir, clDaemon, clPaths, clStderr, clLog,
                   clTask, clError, clRecorded, clRuns, clDirPaths>>
    /\ UNCHANGED outsideClean

\* clean: the daemon directory is listed if it exists and, with the lock,
\* cleaned by lifecycle_lock.clean_daemon_dir().
CleanDaemonDir ==
    /\ clPc = "daemon_dir"
    /\ IF clDaemonDir = "absent"
       THEN /\ clPc' = "print"
            /\ UNCHANGED <<clPaths, clDaemonDir, clLog, clResult, clLock>>
       ELSE IF LifecycleLock = {}
       THEN /\ clPaths' = Append(clPaths, DaemonDirPath)
            /\ clPc' = "print"
            /\ UNCHANGED <<clDaemonDir, clLog, clResult, clLock>>
       ELSE \E res \in {Ok("unit"), Err("clean_daemon_dir failed")} :
               /\ clPaths' = Append(clPaths, DaemonDirPath)
               /\ IF res.ok
                  THEN /\ clDaemonDir' = "cleaned"
                       /\ clLog' = Append(clLog, "clean daemon dir")
                       /\ clPc' = "print"
                       /\ UNCHANGED <<clResult, clLock>>
                  ELSE /\ Finish(res)
                       /\ UNCHANGED <<clDaemonDir, clLog>>
    /\ UNCHANGED <<clDryRun, clBuckOut, clDaemon, clStderr, clAttempts, clTask,
                   clError, clRecorded, clRuns>>
    /\ UNCHANGED <<clDirPaths, clRemoved>>
    /\ UNCHANGED outsideClean

\* clean: for path in paths_to_clean { console.print_stderr(&path)? }; Ok(())
PrintPaths ==
    /\ clPc = "print"
    /\ clStderr' = clStderr \o clPaths
    /\ Finish(Ok("unit"))
    /\ UNCHANGED <<clDryRun, clBuckOut, clDaemonDir, clDaemon, clPaths, clLog,
                   clAttempts, clTask, clError, clRecorded, clRuns>>
    /\ UNCHANGED <<clDirPaths, clRemoved>>
    /\ UNCHANGED outsideClean

\* buck2 clean is invoked, with or without --dry-run, on some buck-out and
\* daemon directory, while the lock is free or held by another command for
\* a time shorter or longer than the deadline.
CleanInit ==
    /\ GraphIdle
    /\ ReadDirIdle
    /\ ConcIdle
    /\ DynIdle
    /\ CtxIdle
    /\ CfgIdle
    /\ AuditIdle
    /\ KillIdle
    /\ clDryRun \in BOOLEAN
    /\ clBuckOut \in BuckOutStates
    /\ clDaemonDir \in {"absent", "present"}
    /\ clDaemon \in BOOLEAN
    /\ clLock \in {FreeLock, [holder |-> "other", release_in |-> 3],
                   [holder |-> "other", release_in |-> 12]}
    /\ clPc = "exec"
    /\ clPaths = <<>>
    /\ clStderr = <<>>
    /\ clResult = {}
    /\ clLog = <<>>
    /\ clAttempts = <<>>
    /\ clTask = [file \in BuckOutFiles |-> "none"]
    /\ clError = {}
    /\ clRecorded = <<>>
    /\ clRuns = [file \in BuckOutFiles |-> 0]
    /\ clDirPaths = <<>>
    /\ clRemoved = <<>>

CleanNext ==
    \/ Exec
    \/ LockWithTimeout
    \/ KillCommand
    \/ CollectPaths
    \/ Walk
    \/ WorkerRemove
    \/ WorkerRecord
    \/ Join
    \/ CleanDaemonDir
    \/ PrintPaths

SpecClean == CleanInit /\ [][CleanNext]_vars

----------------------------------------------------------------------------
(* Properties of buck2 clean, checked under SpecClean *)

\* stderr holds the top-level entries of buck-out, in some order, and after
\* them the daemon directory's path if the directory exists.
Printed(stderr, buck_out, daemon_dir) ==
    \E order \in OrdersOf(TopLevel(buck_out)) :
        stderr = [i \in DOMAIN order |-> Display(order[i])]
                 \o (IF daemon_dir = "absent" THEN <<>> ELSE <<DaemonDirPath>>)

EventRank(e) ==
    CASE e = "lock" -> 1
      [] e = "kill" -> 2
      [] e = "delete buck-out" -> 3
      [] e = "clean daemon dir" -> 4

Logged(e) == \E i \in DOMAIN clLog : clLog[i] = e

\* C28: when the command is not a dry run, its events come in the order
\* lock, kill, deletion of buck-out, cleaning of the daemon directory, the
\* kill only after the lock and the deletions only after the kill; the lock
\* is taken only if it is free or comes free within the 10 seconds; every
\* step that changes buck-out, the daemon directory or the daemon is taken
\* with the lock held, before it and, unless the command returns with it,
\* after; the daemon directory is cleaned only when the deletion of buck-out
\* is over; and a command that failed to lock or to kill ends with nothing
\* deleted.
C28_LockKillDeleteInOrder ==
    [][~clDryRun =>
          /\ \A i, j \in DOMAIN clLog' : i < j => EventRank(clLog'[i]) < EventRank(clLog'[j])
          /\ \A i \in DOMAIN clLog' :
                EventRank(clLog'[i]) >= 2 => clLog'[1] = "lock"
          /\ \A i \in DOMAIN clLog' :
                EventRank(clLog'[i]) >= 3 => (Len(clLog') >= 2 /\ clLog'[2] = "kill")
          /\ (clLog = <<>> /\ clLog' = <<"lock">>) =>
                (clLock.holder = "none" \/ clLock.release_in < LockTimeoutSecs)
          /\ <<clBuckOut, clDaemonDir, clDaemon>>' # <<clBuckOut, clDaemonDir, clDaemon>> =>
                /\ clLock.holder = "clean"
                /\ clLock'.holder = "clean" \/ clPc' = "done"
          /\ <<clBuckOut, clDaemonDir>>' # <<clBuckOut, clDaemonDir>> =>
                /\ Len(clLog) >= 2 /\ clLog[2] = "kill"
                /\ ~clDaemon
          /\ clDaemonDir' # clDaemonDir =>
                /\ clBuckOut' = clBuckOut
                /\ clBuckOut.files = {} /\ clBuckOut.dirs = {}
          /\ clResult' \in {{Err("Error locking buckd lifecycle.lock")}, {Err("kill failed")}} =>
                /\ clAttempts' = <<>>
                /\ ~\E i \in DOMAIN clLog' : EventRank(clLog'[i]) >= 3
      ]_vars

\* The command waited for the lock, killed the daemon, deleted buck-out with
\* its three files and cleaned the daemon directory.
C28_Witness ==
    /\ ~clDryRun
    /\ clLog = <<"lock", "kill", "delete buck-out", "clean daemon dir">>
    /\ clResult = {Ok("unit")}
    /\ clRuns = [file \in BuckOutFiles |-> 1]
    /\ clDaemonDir = "cleaned"

RecordedFiles == {clRecorded[i] : i \in DOMAIN clRecorded}

\* C29: within one clean_buck_out call, remove_file is called once on each
\* file that a task has taken and on no other; the slot is empty until a
\* task records a failure and from then on holds the error of the first
\* task that did, whatever the order in which the tasks ran; and once the
\* pool is joined the call's result is that error if a removal failed,
\* and no file's error if none did; the files left are those whose removal
\* failed.
C29_FirstErrorWins ==
    /\ \A file \in BuckOutFiles :
          clRuns[file] = IF clTask[file] \in {"failed", "done"} THEN 1 ELSE 0
    /\ clError = IF clRecorded = <<>> THEN {} ELSE {Err(Display(clRecorded[1]))}
    /\ \A i, j \in DOMAIN clRecorded : clRecorded[i] = clRecorded[j] => i = j
    /\ (clPc # "pool" /\ clAttempts # <<>>) =>
          LET result == clAttempts[Len(clAttempts)]
          IN  /\ IF clRecorded = <<>>
                 THEN result \in {Ok("unit"), Err("remove_dir failed")}
                 ELSE result = Err(Display(clRecorded[1]))
              /\ clBuckOut.files = RecordedFiles

\* Two removals failed in one call, and the slot holds the error of the
\* task that recorded first, which is not the task of the first file.
C29_Witness ==
    /\ Len(clRecorded) = 2
    /\ clRecorded[1] = <<"d", "c">>
    /\ clRecorded[2] = <<"a">>
    /\ clError = {Err(Display(<<"d", "c">>))}
    /\ clPc = "done"

\* C30: clean_buck_out is called at most twice; the second call is made if
\* and only if the first returned an error; and what comes back to clean is
\* the result of the last call made: on Ok the command goes on, on an error
\* the command returns that error.
C30_SingleRetry ==
    /\ Len(clAttempts) <= 2
    /\ Len(clAttempts) = 2 => ~clAttempts[1].ok
    /\ (clPc = "walk" /\ clAttempts # <<>>) =>
          (Len(clAttempts) = 1 /\ ~clAttempts[1].ok)
    /\ (clPc \in {"daemon_dir", "print", "done"} /\ clAttempts # <<>>) =>
          LET last == clAttempts[Len(clAttempts)]
          IN  /\ Len(clAttempts) = 1 <=> clAttempts[1].ok
              /\ ~last.ok => (clPc = "done" /\ clResult = {last})
              /\ last.ok => clResult \subseteq {Ok("unit"), Err("clean_daemon_dir failed")}

\* The first walk failed on a file, the second succeeded, and the command
\* returned Ok.
C30_Witness ==
    /\ Len(clAttempts) = 2
    /\ clAttempts[1] = Err(Display(<<"a">>))
    /\ clAttempts[2] = Ok("unit")
    /\ clResult = {Ok("unit")}

----------------------------------------------------------------------------
(* audit providers: server_execute_with_dice from compute_many on *)

\* What ctx.get_providers(label) can come to: the providers of a compatible
\* target, those of an incompatible one, an error.
GetProvidersResults == {Ok("providers"), Ok("incompatible providers"), Err("analysis failed")}

\* AuditProvidersError::AtLeastOneFailed, by its message.
AtLeastOneFailed == "Evaluation of at least one target providers failed"

\* Mutation: an incompatible target's providers are taken as they are.
require_compatible_always(v) == Ok(v)

\* v.require_compatible()
require_compatible(v) ==
    IF v = "incompatible providers" THEN Err("incompatible target") ELSE Ok(v)

Range(seq) == {seq[i] : i \in DOMAIN seq}

\* Mutation: the futures are yielded as they complete (FuturesUnordered).
futs_next_unordered(futs, ready, emitted) == ready \ Range(emitted)

\* FuturesOrdered::next: the future it yields now, None while the next one
\* in the order of the pushes has not completed.
futs_next(futs, ready, emitted) ==
    LET i == Len(emitted) + 1
    IN  IF i <= Len(futs) /\ i \in ready THEN {i} ELSE {}

\* Mutation: the command returns Ok whatever happened.
command_result_ok(at_least_one_error) == Ok("unit")

\* The value server_execute_with_dice returns after the loop and the two
\* flushes.
command_result(at_least_one_error) ==
    IF at_least_one_error THEN Err(AtLeastOneFailed) ELSE Ok("unit")

StdoutLine(t) == [target |-> t.label, text |-> t.result.val]
StderrLine(t) == [target |-> t.label, text |-> "failed"]

\* The command returns res out of the loop, by a `?`.
AuditReturn(res) ==
    /\ apResult' = {res}
    /\ apPc' = "done"
    /\ UNCHANGED <<apStdout, apStderr, apError, apFlushed>>

\* The closure of one future completes: ctx.get_providers has its result.
GetProviders ==
    /\ apPc = "loop"
    /\ \E i \in DOMAIN apTargets \ apReady :
          /\ apReady' = apReady \cup {i}
          /\ apOrder' = Append(apOrder, i)
    /\ UNCHANGED <<apTargets, apEmitted, apStdout, apStderr, apError, apFlushed,
                   apPc, apResult>>
    /\ UNCHANGED outsideAudit

\* futs.next().await yields a target with its result, and the body of the
\* loop runs on it.  A write can fail.
FutsNext ==
    /\ apPc = "loop"
    /\ \E i \in futs_next(apTargets, apReady, apEmitted) :
          LET t == apTargets[i]
          IN  /\ apEmitted' = Append(apEmitted, i)
              /\ IF t.result.ok
                 THEN IF ~require_compatible(t.result.val).ok
                      THEN AuditReturn(require_compatible(t.result.val))
                      ELSE \/ /\ apStdout' = Append(apStdout, StdoutLine(t))
                              /\ UNCHANGED <<apStderr, apError, apFlushed, apPc,
                                             apResult>>
                           \/ AuditReturn(Err("write failed"))
                 ELSE \/ /\ apStderr' = Append(apStderr, StderrLine(t))
                         /\ apError' = TRUE
                         /\ UNCHANGED <<apStdout, apFlushed, apPc, apResult>>
                      \/ AuditReturn(Err("write failed"))
    /\ UNCHANGED <<apTargets, apReady, apOrder>>
    /\ UNCHANGED outsideAudit

\* futs.next().await yields None: stdout is flushed, then stderr, and the
\* command returns.  A flush can fail.
FlushAndReturn ==
    /\ apPc = "loop"
    /\ Len(apEmitted) = Len(apTargets)
    /\ \/ /\ apFlushed' = {}
          /\ apResult' = {Err("flush failed")}
       \/ /\ apFlushed' = {"stdout"}
          /\ apResult' = {Err("flush failed")}
       \/ /\ apFlushed' = {"stdout", "stderr"}
          /\ apResult' = {command_result(apError)}
    /\ apPc' = "done"
    /\ UNCHANGED <<apTargets, apReady, apOrder, apEmitted, apStdout, apStderr, apError>>
    /\ UNCHANGED outsideAudit

\* The patterns were resolved and one future per target was handed to
\* compute_many, in the order of the enumeration.
AuditInit ==
    /\ GraphIdle
    /\ ReadDirIdle
    /\ ConcIdle
    /\ DynIdle
    /\ CtxIdle
    /\ CfgIdle
    /\ CleanIdle
    /\ KillIdle
    /\ apTargets \in UNION {{[i \in DOMAIN rs |-> [label |-> i, result |-> rs[i]]] :
                                rs \in [1..n -> GetProvidersResults]} :
                            n \in 0..MaxTargets}
    /\ apReady = {}
    /\ apOrder = <<>>
    /\ apEmitted = <<>>
    /\ apStdout = <<>>
    /\ apStderr = <<>>
    /\ apError = FALSE
    /\ apFlushed = {}
    /\ apPc = "loop"
    /\ apResult = {}

AuditNext ==
    \/ GetProviders
    \/ FutsNext
    \/ FlushAndReturn

SpecAudit == AuditInit /\ [][AuditNext]_vars

----------------------------------------------------------------------------
(* Properties of audit providers, checked under SpecAudit *)

\* The number of targets whose result was written.
Written == Len(apStdout) + Len(apStderr)

\* What the first k targets, taken in the order of the enumeration, put on
\* stdout (ok) or on stderr (~ok).
LinesOf(k, ok) ==
    LET sel == SelectSeq(SubSeq(apTargets, 1, k), LAMBDA t : t.result.ok = ok)
    IN  [j \in 1..Len(sel) |-> IF ok THEN StdoutLine(sel[j]) ELSE StderrLine(sel[j])]

Failed(i) == ~apTargets[i].result.ok
Incompatible(i) == apTargets[i].result = Ok("incompatible providers")
IoFailure == apResult \in {{Err("write failed")}, {Err("flush failed")}}

C39_IncompatibleReturnsAtOnce ==
    /\ \A j \in DOMAIN apEmitted :
          Incompatible(apEmitted[j]) =>
              /\ j = Len(apEmitted)
              /\ apResult = {Err("incompatible target")}
              /\ Written = j - 1
              /\ apStdout = LinesOf(j - 1, TRUE)
              /\ apStderr = LinesOf(j - 1, FALSE)
              /\ apFlushed = {}
              /\ apPc = "done"
    /\ apResult = {Err("incompatible target")} =>
          apEmitted # <<>> /\ Incompatible(apEmitted[Len(apEmitted)])

\* The first target failed, the second was incompatible, and the command
\* returned the incompatibility error with the third target computed but
\* not reported.
C39_Witness ==
    /\ Len(apTargets) = 3
    /\ Failed(1) /\ Incompatible(2)
    /\ apReady = {1, 2, 3}
    /\ apError
    /\ Len(apStderr) = 1
    /\ apStdout = <<>>
    /\ apResult = {Err("incompatible target")}

----------------------------------------------------------------------------
(* Process control: process_exists, kill and KilledProcessHandle *)

\* The test's patience with has_exited on Windows: it polls every
\* SleepMillis milliseconds and gives up after TimeoutSecs seconds.
TimeoutSecs == 20
SleepMillis == 100

\* Mutation: process_exists answers anything.
process_exists_unreliable(platform, proc) == BOOLEAN

\* process_exists(pid), by what imp::process_exists can answer for the
\* process in state proc: a running process exists, one that was waited for
\* does not; in between the platforms differ.
process_exists(platform, proc) ==
    CASE proc = "running" -> {TRUE}
      [] proc = "gone" -> {FALSE}
      [] OTHER -> BOOLEAN

\* kill(pid): Some(handle) if the process was there to be killed, None if
\* it was not.
kill(platform, proc) ==
    IF proc = "gone"
    THEN [proc |-> proc, handle |-> "None"]
    ELSE [proc |-> IF proc = "running" THEN "dying" ELSE proc, handle |-> "Some"]

\* Mutation: the handle never shows the exit.
has_exited_never(platform, proc, lag) == {FALSE}

\* KilledProcessHandle::has_exited, by what the handle can answer: false
\* while the process has not terminated; once it was waited for, true at
\* once on Unix and true after lag more polls on Windows.
has_exited(platform, proc, lag) ==
    CASE proc \in {"running", "dying"} -> {FALSE}
      [] proc = "exited" -> BOOLEAN
      [] proc = "gone" -> IF platform = "unix" \/ lag = 0 THEN {TRUE} ELSE {FALSE}

\* The polls made since the child was waited for, and whether the latest
\* poll answered true.
GonePolls == Len(SelectSeq(kPolls, LAMBDA p : p.proc = "gone"))
HasExitedTrue == kPolls # <<>> /\ kPolls[Len(kPolls)].res

\* assert!(process_exists(pid).unwrap()), at any time.
ProcessExists ==
    /\ Len(kExists) < MaxQueries
    /\ \E res \in process_exists(kPlatform, kProc) :
          kExists' = Append(kExists, [proc |-> kProc, killed |-> kHandle # {}, res |-> res])
    /\ UNCHANGED <<kPlatform, kProc, kLag, kHandle, kPolls>>
    /\ UNCHANGED outsideKill

\* let handle = kill(pid).unwrap().unwrap()
Kill ==
    /\ kHandle = {}
    /\ kHandle' = {kill(kPlatform, kProc).handle}
    /\ kProc' = kill(kPlatform, kProc).proc
    /\ UNCHANGED <<kPlatform, kLag, kExists, kPolls>>
    /\ UNCHANGED outsideKill

\* The operating system ends the process that was killed.
Terminate ==
    /\ kProc = "dying"
    /\ kProc' = "exited"
    /\ UNCHANGED <<kPlatform, kLag, kHandle, kExists, kPolls>>
    /\ UNCHANGED outsideKill

\* child.wait().unwrap() returns and the child is dropped.
Wait ==
    /\ kProc = "exited"
    /\ kProc' = "gone"
    /\ UNCHANGED <<kPlatform, kLag, kHandle, kExists, kPolls>>
    /\ UNCHANGED outsideKill

\* handle.has_exited().unwrap(), once on Unix; on Windows again after a
\* sleep while it answers false and the time is not up.
HasExited ==
    /\ kHandle = {"Some"}
    /\ ~HasExitedTrue
    /\ IF kProc = "gone"
       THEN GonePolls * SleepMillis < TimeoutSecs * 1000
       ELSE Len(kPolls) < MaxPolls
    /\ \E res \in has_exited(kPlatform, kProc, kLag) :
          kPolls' = Append(kPolls, [proc |-> kProc, res |-> res])
    /\ kLag' = IF kProc = "gone" /\ kLag > 0 THEN kLag - 1 ELSE kLag
    /\ UNCHANGED <<kPlatform, kProc, kHandle, kExists>>
    /\ UNCHANGED outsideKill

\* A child was spawned and runs, on one of the two platforms.
KillInit ==
    /\ GraphIdle
    /\ ReadDirIdle
    /\ ConcIdle
    /\ DynIdle
    /\ CtxIdle
    /\ CfgIdle
    /\ CleanIdle
    /\ AuditIdle
    /\ kPlatform \in {"unix", "windows"}
    /\ kProc = "running"
    /\ kLag \in 0..MaxLag
    /\ kPlatform = "unix" => kLag = 0
    /\ kHandle = {}
    /\ kExists = <<>>
    /\ kPolls = <<>>

KillNext ==
    \/ ProcessExists
    \/ Kill
    \/ Terminate
    \/ Wait
    \/ HasExited

SpecKill == KillInit /\ [][KillNext]_vars

\* The caller that holds a handle keeps polling it.
SpecKillFair == SpecKill /\ WF_vars(HasExited)

----------------------------------------------------------------------------
(* Properties of process control, checked under SpecKillFair *)

C34_DirsAfterJoinChildrenFirst ==
    [][/\ (clRemoved' # clRemoved \/ clBuckOut'.dirs # clBuckOut.dirs) =>
             /\ clPc = "pool"
             /\ \A file \in BuckOutFiles : clTask[file] \in {"none", "done"}
             /\ clError = {}
             /\ clBuckOut.files = {}
             /\ clBuckOut'.dirs = clBuckOut.dirs \ {clRemoved'[i].path : i \in DOMAIN clRemoved'}
       /\ \A i \in DOMAIN clRemoved' :
             /\ clRemoved'[i].path # <<>>
             /\ clRemoved'[i].below = {}
       /\ \A i, j \in DOMAIN clRemoved' :
             i < j => ~IsPrefixOf(clRemoved'[i].path, clRemoved'[j].path)
       /\ \A i \in DOMAIN clAttempts' : clAttempts'[i] # Err("directory not empty")
       /\ clBuckOut'.exists = clBuckOut.exists
      ]_vars

\* A directory and the directory in it were removed, the inner one first,
\* after the one file was removed; buck-out is left empty and in place.
C34_Witness ==
    /\ clRuns[<<"d", "b">>] = 1
    /\ clRemoved = <<[path |-> <<"d", "e">>, below |-> {}], [path |-> <<"d">>, below |-> {}]>>
    /\ clBuckOut = [exists |-> TRUE, files |-> {}, dirs |-> {}]
    /\ clAttempts = <<Ok("unit")>>

====
